---- MODULE Spec2Model ----
(***************************************************************************)
(* The reward engine of functions/shared-data/index.ts (the Supabase       *)
(* variant of the handler, lines 73-1367) as a state machine.              *)
(*                                                                         *)
(* The store's tables are the state.  A request is a process: it occupies  *)
(* a slot, and every `await` on the store is one step of it, so requests   *)
(* interleave exactly where the JavaScript handlers can.  Time is counted   *)
(* in minutes.  Row ids embed Date.now() in milliseconds and are taken to  *)
(* be distinct.                                                            *)
(***************************************************************************)
EXTENDS Integers, Sequences, FiniteSets, TLC

\* ------------------------------------------------------------------ bounds
MaxRequests == 2      \* requests issued in one behaviour
MaxNow == 2880        \* the clock stops here (two days)
MaxFaults == 1        \* store operations that fail in one behaviour
InitBalance == 100    \* every profile's balance at the start
MaxQuizRequests == 3  \* requests of a behaviour of one-at-a-time quiz play
MaxRaceRequests == 4  \* requests of a behaviour of concurrent quiz play
MaxLimiterRequests == 42  \* requests of a behaviour that fills the rate limits
MaxLimiterNow == 2    \* the clock of such a behaviour stops here
MaxLockoutRequests == 6  \* requests of a behaviour that reaches the lockout
MaxLockoutNow == 4    \* no short step of the clock from here on
MaxReferralRequests == 3  \* requests of a behaviour of concurrent referrals

\* ------------------------------------------------------- program constants
RateWindow == 1               \* 60000 ms
LockoutWindow == 60           \* 3600000 ms
DefaultRate == 10
QuizAnswerRate == 30
CodeIpRate == 5
LockoutCount == 10
BruteForceCount == 8
MinCodeLen == 6
DefaultCodeReward == 100
RedeemXp == 10
PendingXp == 10
CommissionXp == 5
CommissionDelay == 1440       \* 24 * 60 * 60 * 1000 ms
CommissionPercent == 10       \* commissionRate = 0.10
MinActivity == 2
VelocityWindow == 10          \* 10 * 60 * 1000 ms
VelocityCount == 5
IpClusterWindow == 1440
IpClusterSize == 3
LowFlagLimit == 3
SweepLimit == 20
Day == 1440
StaleMinutes == 30            \* 30 * 60 * 1000 ms
ScoreXp == 5
PerfectXp == 50
NewUserReward == 50
NewUserXp == 25
SignupCommission == 100
ReferralDailyCap == 10
CheckinBase == 10
CheckinCap == 5
CheckinXp == 5

\* multipliers are kept in units of 1/MultScale
MultScale == 100000
MultOne == 100000
MultVelocity == 50000         \* 0.5
MultCluster == 25000          \* 0.25
MultLowFlags == 75000         \* 0.75
MultFloor == 10000            \* 0.1

Users == {"u1", "u2"}
NoUser == "none"
IPs == {"ip1", "ip2"}
Slots == {1, 2}
Actions == {"redeem_task_code", "verify_reward_code", "complete_task",
            "daily_checkin", "start_quiz", "quiz_answer", "finish_quiz",
            "game_result", "process_referral", "get_pending_rewards",
            "admin_disable_code_window", "admin_generate_code_window",
            "admin_list_code_windows", "admin_get_metrics", "admin_get_abuse_flags",
            "admin_resolve_flag"}

VARIABLES
    now,                  \* Date.now(), in minutes
    user_profiles,        \* user -> profile row
    task_code_windows,    \* window id -> window row
    redemptions,          \* rows, in insertion order
    user_tasks,
    quiz_sessions,
    pending_rewards,
    referral_commissions,
    referral_history,
    transactions,
    reward_logs,
    abuse_flags,
    platform_metrics,     \* day -> the day's row (exists = FALSE: no row)
    rateLimits,           \* in-memory map of the instance
    failedAttempts,       \* in-memory map of the instance
    req,                  \* slot -> the request running in it
    issued,               \* requests begun so far
    faultsLeft            \* store failures the environment may still inject

tables == <<user_profiles, task_code_windows, redemptions, user_tasks,
            quiz_sessions, pending_rewards, referral_commissions,
            referral_history, transactions, reward_logs, abuse_flags,
            platform_metrics>>
memory == <<rateLimits, failedAttempts>>
vars == <<now, tables, memory, req, issued, faultsLeft>>

\* ----------------------------------------------------------------- helpers
Min(a, b) == IF a <= b THEN a ELSE b
Max(a, b) == IF a >= b THEN a ELSE b

RECURSIVE SeqOfSet(_)
SeqOfSet(S) ==
    IF S = {} THEN <<>>
    ELSE LET m == CHOOSE x \in S : \A y \in S : x <= y
         IN  <<m>> \o SeqOfSet(S \ {m})

\* .limit(n) on a result in insertion order
Limit(s, n) == SubSeq(s, 1, Min(n, Len(s)))

\* indices of the rows of table t that satisfy Test, in insertion order
Rows(t, Test(_)) == SeqOfSet({i \in 1..Len(t) : Test(t[i])})

RECURSIVE SumSeq(_)
SumSeq(s) == IF s = <<>> THEN 0 ELSE Head(s) + SumSeq(Tail(s))

\* Math.round(num / den) for den > 0: floor(num/den + 1/2)
Round(num, den) == (2 * num + den) \div (2 * den)

\* new Date().toISOString().split("T")[0]
DateOf(t) == t \div Day

\* ------------------------------------------------------------- static data
\* The task catalogue: written by an administrator, only read by the engine.
TaskIds == {"task_once", "task_daily"}
tasks ==
    [t \in TaskIds |->
        IF t = "task_once"
        THEN [reward_amount |-> 100, xp_reward |-> 50, category |-> "social",
              task_type |-> "one_time", required_level |-> 0, is_active |-> TRUE]
        ELSE [reward_amount |-> 25, xp_reward |-> 10, category |-> "daily",
              task_type |-> "daily", required_level |-> 0, is_active |-> TRUE]]

\* The codes a caller may send; "GOODCODE" is the code of window "w1".
CodeInputs == {"goodcode", "BADCODE9", "abc"}

\* code.trim().length
CodeLength(c) == IF c = "abc" THEN 3 ELSE 8

\* code.trim().toUpperCase()
CleanCode(c) == IF c = "goodcode" THEN "GOODCODE" ELSE c

WindowIds == {"w1"}
MetricDays == 0..(MaxNow \div Day)

\* ------------------------------------------------------------------- rows
NewProfile ==
    [balance |-> InitBalance, total_earned |-> 0, xp |-> 0,
     referred_by |-> NoUser, last_login |-> -1, daily_streak |-> 0,
     role |-> "user"]

NoWindow ==
    [id |-> "none", task_id |-> "general", code |-> "none", valid_from |-> 0,
     valid_until |-> 0, max_redemptions |-> 0, current_redemptions |-> 0,
     is_active |-> FALSE]

NoMetric ==
    [exists |-> FALSE, total_rewards_issued |-> 0, total_daily_rewards |-> 0,
     task_rewards_issued |-> 0, referral_rewards_issued |-> 0,
     quiz_rewards_issued |-> 0, game_rewards_issued |-> 0,
     code_rewards_issued |-> 0, active_users_today |-> 0]

NoSession ==
    [id |-> 0, user_id |-> NoUser, question_ids |-> {}, answered_ids |-> {},
     score |-> 0, total_earned |-> 0, status |-> "none", started_at |-> 0]

NoEntry == [count |-> 0, resetAt |-> -1]

NoResponse == [status |-> 0, msg |-> "none", reward |-> 0, bonus |-> 0]

\* A free slot; a request is this record with its parameters filled in.
IdleReq ==
    [pc |-> "idle", user |-> NoUser, action |-> "none", ip |-> "none",
     code |-> "none", wid |-> "none", task |-> "none", sid |-> 0, fid |-> 0, qid |-> "none", opt |-> 0,
     count |-> 0, diff |-> "none", bet |-> 0, game |-> "none", gmult |-> 0,
     refcode |-> "none",
     sweepNow |-> 0, todo |-> <<>>, cur |-> 0,
     prof |-> NewProfile, win |-> NoWindow, sess |-> NoSession, at |-> 0,
     flagsN |-> 0, vel |-> 0, cluster |-> 0, cut |-> 0, amult |-> MultOne,
     reward |-> 0, bonus |-> 0, xp |-> 0, streak |-> 0,
     metType |-> "none", metAmt |-> 0, metDay |-> 0, metRow |-> NoMetric,
     ret |-> "none",
     rcAmt |-> 0, rcSrc |-> "none", rcRet |-> "none", rcN |-> 0, rcIps |-> {},
     rcAt |-> 0, rcElig |-> 0, referrer |-> NoUser,
     resp |-> NoResponse, wrote |-> {}, failed |-> {}]

\* The request has answered: its parameters, its response and the record of its
\* writes stay in the slot, its local variables are gone.
Answered(q, response) ==
    [IdleReq EXCEPT !.pc = "done", !.user = q.user, !.action = q.action, !.ip = q.ip,
                    !.code = q.code, !.wid = q.wid, !.task = q.task, !.sid = q.sid, !.fid = q.fid, !.qid = q.qid,
                    !.opt = q.opt, !.count = q.count, !.diff = q.diff, !.bet = q.bet,
                    !.game = q.game,
                    !.refcode = q.refcode, !.wrote = q.wrote, !.failed = q.failed,
                    !.resp = response]

\* errorResponse(message, status)
Reply(q, status, msg) ==
    Answered(q, [NoResponse EXCEPT !.status = status, !.msg = msg])

\* what a store write leaves in the request's record of its own writes
Noted(q, label, ok) ==
    [q EXCEPT !.wrote = IF ok THEN @ \cup {label} ELSE @,
              !.failed = IF ok THEN @ ELSE @ \cup {label}]

\* the outcomes of one store write: it is applied, or the store returns an error
WriteOutcomes == IF faultsLeft > 0 THEN BOOLEAN ELSE {TRUE}
Spend(ok) == faultsLeft' = IF ok THEN faultsLeft ELSE faultsLeft - 1

InFlight(r) == req[r].pc \notin {"idle", "done"}

\* ------------------------------------------------------------------- Init
InitWith(profiles, windows, sessions, pending, commissions, redeemed, completed, faults) ==
    /\ now = 0
    /\ user_profiles = profiles
    /\ task_code_windows = windows
    /\ redemptions = redeemed
    /\ user_tasks = completed
    /\ quiz_sessions = sessions
    /\ pending_rewards = pending
    /\ referral_commissions = commissions
    /\ referral_history = <<>>
    /\ transactions = <<>>
    /\ reward_logs = <<>>
    /\ abuse_flags = <<>>
    /\ platform_metrics = [d \in MetricDays |-> NoMetric]
    /\ rateLimits = [k \in (Users \X Actions) \cup ({"code_ip"} \X IPs) |-> NoEntry]
    /\ failedAttempts = [u \in Users |-> NoEntry]
    /\ req = [r \in Slots |-> IdleReq]
    /\ issued = 0
    /\ faultsLeft = faults

FreshProfiles == [u \in Users |-> NewProfile]

OneWindow ==
    [w \in WindowIds |->
        [id |-> w, task_id |-> "general", code |-> "GOODCODE", valid_from |-> 0,
         valid_until |-> 180, max_redemptions |-> 0, current_redemptions |-> 0,
         is_active |-> TRUE]]

\* the limiter with the comparison of line 103 made strict
checkRateLimitStrict(rl, key, maxPerMinute, t) ==
    LET entry == rl[key] IN
    IF t > entry.resetAt
    THEN [ok |-> TRUE, map |-> [rl EXCEPT ![key] = [count |-> 1, resetAt |-> t + RateWindow]]]
    ELSE IF entry.count > maxPerMinute
         THEN [ok |-> FALSE, map |-> rl]
         ELSE [ok |-> TRUE, map |-> [rl EXCEPT ![key].count = @ + 1]]

\* ------------------------------------------------- rate limiting, lockout
\* checkRateLimit(key, maxPerMinute) on map rl at time t: the answer and the map after
checkRateLimit(rl, key, maxPerMinute, t) ==
    LET entry == rl[key] IN
    IF t > entry.resetAt
    THEN [ok |-> TRUE, map |-> [rl EXCEPT ![key] = [count |-> 1, resetAt |-> t + RateWindow]]]
    ELSE IF entry.count >= maxPerMinute
         THEN [ok |-> FALSE, map |-> rl]
         ELSE [ok |-> TRUE, map |-> [rl EXCEPT ![key].count = @ + 1]]

\* trackFailedAttempt(key): the count returned and the map after
trackFailedAttempt(fa, key, t) ==
    LET entry == fa[key] IN
    IF t > entry.resetAt
    THEN [count |-> 1, map |-> [fa EXCEPT ![key] = [count |-> 1, resetAt |-> t + LockoutWindow]]]
    ELSE [count |-> entry.count + 1, map |-> [fa EXCEPT ![key].count = @ + 1]]

\* isLockedOut with the comparison of line 127 made strict
isLockedOutStrict(fa, key, t) ==
    LET entry == fa[key] IN
    IF entry.resetAt < 0 THEN [locked |-> FALSE, map |-> fa]
    ELSE IF t > entry.resetAt
         THEN [locked |-> FALSE, map |-> [fa EXCEPT ![key] = NoEntry]]
         ELSE [locked |-> entry.count > LockoutCount, map |-> fa]

\* isLockedOut(key): the answer and the map after (an elapsed entry is deleted)
isLockedOut(fa, key, t) ==
    LET entry == fa[key] IN
    IF entry.resetAt < 0 THEN [locked |-> FALSE, map |-> fa]
    ELSE IF t > entry.resetAt
         THEN [locked |-> FALSE, map |-> [fa EXCEPT ![key] = NoEntry]]
         ELSE [locked |-> entry.count >= LockoutCount, map |-> fa]

\* ------------------------------------------------------------ the handler
\* handler, lines 279-305: the limits, then the sweep is started.  The request
\* takes the first slot that holds no running request; how many requests a
\* behaviour issues is bounded where the request is made.
\* an accepted request that goes to its action without the sweep
AcceptedUnswept(q, t) == [q EXCEPT !.pc = "gp_list"]

\* lines 304-305: a request that passed the limits runs the sweep first
Accepted(q, t) == [q EXCEPT !.pc = "sweep_pending", !.sweepNow = t]

handler(r, q) ==
    /\ ~InFlight(r)
    /\ \A s \in Slots : s < r => InFlight(s)
    /\ issued' = issued + 1
    /\ LET gate == q.action = "redeem_task_code"
           ipRes == checkRateLimit(rateLimits, <<"code_ip", q.ip>>, CodeIpRate, now)
           rl1 == IF gate THEN ipRes.map ELSE rateLimits
           lock == isLockedOut(failedAttempts, q.user, now)
           userRes == checkRateLimit(rl1, <<q.user, q.action>>,
                          IF q.action = "quiz_answer" THEN QuizAnswerRate ELSE DefaultRate, now)
       IN  IF gate /\ ~ipRes.ok
           THEN /\ req' = [req EXCEPT ![r] = Reply(q, 429, "Too many code attempts. Wait a minute.")]
                /\ UNCHANGED memory
           ELSE IF gate /\ lock.locked
           THEN /\ req' = [req EXCEPT ![r] = Reply(q, 429, "Account temporarily locked")]
                /\ rateLimits' = rl1
                /\ failedAttempts' = lock.map
           ELSE IF ~userRes.ok
           THEN /\ req' = [req EXCEPT ![r] = Reply(q, 429, "Rate limited. Try again later.")]
                /\ rateLimits' = rl1
                /\ failedAttempts' = IF gate THEN lock.map ELSE failedAttempts
           ELSE /\ req' = [req EXCEPT ![r] = Accepted(q, now)]
                /\ rateLimits' = userRes.map
                /\ failedAttempts' = IF gate THEN lock.map ELSE failedAttempts
    /\ UNCHANGED <<now, tables, faultsLeft>>

\* Time passes.
Advance(d) ==
    /\ now + d <= MaxNow
    /\ now' = now + d
    /\ UNCHANGED <<tables, memory, req, issued, faultsLeft>>


\* ------------------------------------------------------------- frames
\* Only<T>: of the store's tables, only T may change in this step.
OnlyProfiles ==
    UNCHANGED <<task_code_windows, redemptions, user_tasks, quiz_sessions,
                pending_rewards, referral_commissions, referral_history, transactions,
                reward_logs, abuse_flags, platform_metrics>>
OnlyWindows ==
    UNCHANGED <<user_profiles, redemptions, user_tasks, quiz_sessions,
                pending_rewards, referral_commissions, referral_history, transactions,
                reward_logs, abuse_flags, platform_metrics>>
OnlyRedemptions ==
    UNCHANGED <<user_profiles, task_code_windows, user_tasks, quiz_sessions,
                pending_rewards, referral_commissions, referral_history, transactions,
                reward_logs, abuse_flags, platform_metrics>>
OnlyUserTasks ==
    UNCHANGED <<user_profiles, task_code_windows, redemptions, quiz_sessions,
                pending_rewards, referral_commissions, referral_history, transactions,
                reward_logs, abuse_flags, platform_metrics>>
OnlySessions ==
    UNCHANGED <<user_profiles, task_code_windows, redemptions, user_tasks,
                pending_rewards, referral_commissions, referral_history, transactions,
                reward_logs, abuse_flags, platform_metrics>>
OnlyPending ==
    UNCHANGED <<user_profiles, task_code_windows, redemptions, user_tasks,
                quiz_sessions, referral_commissions, referral_history, transactions,
                reward_logs, abuse_flags, platform_metrics>>
OnlyCommissions ==
    UNCHANGED <<user_profiles, task_code_windows, redemptions, user_tasks,
                quiz_sessions, pending_rewards, referral_history, transactions,
                reward_logs, abuse_flags, platform_metrics>>
OnlyHistory ==
    UNCHANGED <<user_profiles, task_code_windows, redemptions, user_tasks,
                quiz_sessions, pending_rewards, referral_commissions, transactions,
                reward_logs, abuse_flags, platform_metrics>>
OnlyTransactions ==
    UNCHANGED <<user_profiles, task_code_windows, redemptions, user_tasks,
                quiz_sessions, pending_rewards, referral_commissions, referral_history,
                reward_logs, abuse_flags, platform_metrics>>
OnlyLogs ==
    UNCHANGED <<user_profiles, task_code_windows, redemptions, user_tasks,
                quiz_sessions, pending_rewards, referral_commissions, referral_history,
                transactions, abuse_flags, platform_metrics>>
OnlyFlags ==
    UNCHANGED <<user_profiles, task_code_windows, redemptions, user_tasks,
                quiz_sessions, pending_rewards, referral_commissions, referral_history,
                transactions, reward_logs, platform_metrics>>
OnlyMetrics ==
    UNCHANGED <<user_profiles, task_code_windows, redemptions, user_tasks,
                quiz_sessions, pending_rewards, referral_commissions, referral_history,
                transactions, reward_logs, abuse_flags>>
Reads == UNCHANGED <<now, tables, memory, issued, faultsLeft>>
Writes == UNCHANGED <<now, memory, issued>>
\* a read whose error the code looks at: the store may refuse it
FailingRead == UNCHANGED <<now, tables, memory, issued>>

\* ------------------------------------------------------ shared operations
\* the read-modify-write of a profile row from the snapshot `snap` read earlier
Credited(u, snap, amount, xp) ==
    [user_profiles EXCEPT ![u] =
        [@ EXCEPT !.balance = snap.balance + amount,
                  !.total_earned = snap.total_earned + amount,
                  !.xp = snap.xp + xp]]

Transaction(u, amount, type) == [user_id |-> u, amount |-> amount, type |-> type]

RewardLog(u, type, amount, source) ==
    [user_id |-> u, reward_type |-> type, reward_amount |-> amount, source_id |-> source]

\* jsonResponse({success: true, reward, ...})
ReplyOk(q) ==
    Answered(q, [status |-> 200, msg |-> "success", reward |-> q.reward, bonus |-> q.bonus])

\* the first step of each action's handler (the switch of lines 307-346)
EntryPc(action) ==
    CASE action \in {"redeem_task_code", "verify_reward_code"} -> "rd_find"
      [] action = "complete_task" -> "ct_task"
      [] action = "daily_checkin" -> "dc_profile"
      [] action = "start_quiz" -> "sq_active"
      [] action = "quiz_answer" -> "qa_session"
      [] action = "finish_quiz" -> "fq_session"
      [] action = "game_result" -> "gr_profile"
      [] action = "process_referral" -> "pr_referrer"
      [] action = "admin_disable_code_window" -> "ad_verify"
      [] action = "admin_generate_code_window" -> "ag_verify"
      [] action = "admin_list_code_windows" -> "al_verify"
      [] action = "admin_get_metrics" -> "am_verify"
      [] action = "admin_get_abuse_flags" -> "aa_verify"
      [] action = "admin_resolve_flag" -> "af_verify"
      [] OTHER -> "gp_list"

\* a sweep that takes every pending row, due or not
MaturedAlways(at, t) == TRUE

\* item.process_at && item.process_at <= now
Matured(at, t) == at <= t

\* the sweep's loops: the next matured item, or the next stage
NextReward(q, rest) ==
    IF rest = <<>>
    THEN [q EXCEPT !.todo = <<>>, !.cur = 0, !.pc = "sweep_commissions"]
    ELSE [q EXCEPT !.todo = rest, !.cur = Head(rest), !.pc = "rw_read"]

NextCommission(q, rest) ==
    IF rest = <<>>
    THEN [q EXCEPT !.todo = <<>>, !.cur = 0, !.pc = EntryPc(q.action)]
    ELSE [q EXCEPT !.todo = rest, !.cur = Head(rest), !.pc = "cm_read"]

\* the call trackMetric(rewardType, amount); `ret` names what follows it
CallMetric(q, type, amount, ret) ==
    [q EXCEPT !.pc = "tm_read", !.metType = type, !.metAmt = amount,
              !.metDay = DateOf(now), !.ret = ret]

\* fieldMap of trackMetric
MetricField(type) ==
    CASE type = "referral" -> "referral_rewards_issued"
      [] type = "quiz" -> "quiz_rewards_issued"
      [] type = "game" -> "game_rewards_issued"
      [] type = "code" -> "code_rewards_issued"
      [] OTHER -> "task_rewards_issued"

\* an error inside autoProcessPending that reaches the request's response
SweepFailedAnswers(q) == Reply(q, 500, "Internal server error")

\* autoProcessPending, lines 707-709: an error thrown in the sweep is caught
\* and logged, and the sweep returns
SweepFailed(q) == [q EXCEPT !.todo = <<>>, !.cur = 0, !.pc = EntryPc(q.action)]

\* what follows trackMetric in its caller
AfterMetric(q) ==
    CASE q.ret = "sweep" -> NextCommission(q, Tail(q.todo))
      [] q.ret = "commission" -> [q EXCEPT !.pc = "rc_profile"]
      [] OTHER -> ReplyOk(q)

\* ------------------------------------------------------------- the sweep
\* autoProcessPending, lines 686-696: the caller's matured pending rewards
autoProcessPending_rewards(r) ==
    /\ req[r].pc = "sweep_pending"
    /\ LET q == req[r]
           mine == Limit(Rows(pending_rewards,
                              LAMBDA row : row.user_id = q.user /\ row.status = "pending"),
                         SweepLimit)
           due == SelectSeq(mine, LAMBDA i : Matured(pending_rewards[i].process_at, q.sweepNow))
       IN  \E ok \in WriteOutcomes :
               /\ Spend(ok)
               /\ req' = [req EXCEPT ![r] =
                             IF ok THEN NextReward(q, due)
                             ELSE SweepFailed(Noted(q, "sweep_read", FALSE))]
    /\ FailingRead

\* processReward, lines 714-715
processReward_read(r) ==
    /\ req[r].pc = "rw_read"
    /\ LET q == req[r]
       IN  \E ok \in WriteOutcomes :
               /\ Spend(ok)
               /\ req' = [req EXCEPT ![r] =
                             IF ok
                             THEN [q EXCEPT !.pc = "rw_credit",
                                            !.prof = user_profiles[pending_rewards[q.cur].user_id]]
                             ELSE NextReward(Noted(q, "sweep_read", FALSE), Tail(q.todo))]
    /\ FailingRead

\* processReward, lines 717-721
processReward_credit(r) ==
    /\ req[r].pc = "rw_credit"
    /\ \E ok \in WriteOutcomes :
        LET q == req[r]
            item == pending_rewards[q.cur]
        IN  /\ Spend(ok)
            /\ user_profiles' = IF ok
                                THEN Credited(item.user_id, q.prof, item.reward_amount, PendingXp)
                                ELSE user_profiles
            /\ req' = [req EXCEPT ![r] = [Noted(q, "sweep_profile", ok) EXCEPT !.pc = "rw_mark"]]
    /\ OnlyProfiles /\ Writes

\* processReward, line 723
processReward_mark(r) ==
    /\ req[r].pc = "rw_mark"
    /\ \E ok \in WriteOutcomes :
        LET q == req[r]
        IN  /\ Spend(ok)
            /\ pending_rewards' = IF ok
                                  THEN [pending_rewards EXCEPT ![q.cur].status = "processed"]
                                  ELSE pending_rewards
            /\ req' = [req EXCEPT ![r] = [Noted(q, "sweep_status", ok) EXCEPT !.pc = "rw_tx"]]
    /\ OnlyPending /\ Writes

\* processReward, lines 725-731
processReward_transaction(r) ==
    /\ req[r].pc = "rw_tx"
    /\ \E ok \in WriteOutcomes :
        LET q == req[r]
            item == pending_rewards[q.cur]
        IN  /\ Spend(ok)
            /\ transactions' = IF ok
                               THEN Append(transactions,
                                      Transaction(item.user_id, item.reward_amount, "verification"))
                               ELSE transactions
            /\ req' = [req EXCEPT ![r] = [Noted(q, "sweep_transaction", ok) EXCEPT !.pc = "rw_log"]]
    /\ OnlyTransactions /\ Writes

\* processReward, lines 733-740, and the loop of lines 692-696
processReward_log(r) ==
    /\ req[r].pc = "rw_log"
    /\ \E ok \in WriteOutcomes :
        LET q == req[r]
            item == pending_rewards[q.cur]
        IN  /\ Spend(ok)
            /\ reward_logs' = IF ok
                              THEN Append(reward_logs,
                                     RewardLog(item.user_id, "verification",
                                               item.reward_amount, "pending_reward"))
                              ELSE reward_logs
            /\ req' = [req EXCEPT ![r] = NextReward(Noted(q, "sweep_log", ok), Tail(q.todo))]
    /\ OnlyLogs /\ Writes

\* autoProcessPending, lines 698-706: the caller's matured commissions
autoProcessPending_commissions(r) ==
    /\ req[r].pc = "sweep_commissions"
    /\ LET q == req[r]
           mine == Limit(Rows(referral_commissions,
                              LAMBDA row : row.referrer_id = q.user /\ row.status = "pending"),
                         SweepLimit)
           due == SelectSeq(mine,
                            LAMBDA i : Matured(referral_commissions[i].eligible_at, q.sweepNow))
       IN  \E ok \in WriteOutcomes :
               /\ Spend(ok)
               /\ req' = [req EXCEPT ![r] =
                             IF ok THEN NextCommission(q, due)
                             ELSE SweepFailed(Noted(q, "sweep_read", FALSE))]
    /\ FailingRead

\* processCommission, lines 748-749
processCommission_read(r) ==
    /\ req[r].pc = "cm_read"
    /\ LET q == req[r]
       IN  \E ok \in WriteOutcomes :
               /\ Spend(ok)
               /\ req' = [req EXCEPT ![r] =
                             IF ok
                             THEN [q EXCEPT !.pc = "cm_credit",
                                            !.prof = user_profiles[referral_commissions[q.cur].referrer_id]]
                             ELSE NextCommission(Noted(q, "sweep_read", FALSE), Tail(q.todo))]
    /\ FailingRead

\* processCommission, lines 751-755
processCommission_credit(r) ==
    /\ req[r].pc = "cm_credit"
    /\ \E ok \in WriteOutcomes :
        LET q == req[r]
            comm == referral_commissions[q.cur]
        IN  /\ Spend(ok)
            /\ user_profiles' = IF ok
                                THEN Credited(comm.referrer_id, q.prof,
                                              comm.commission_amount, CommissionXp)
                                ELSE user_profiles
            /\ req' = [req EXCEPT ![r] = [Noted(q, "sweep_profile", ok) EXCEPT !.pc = "cm_mark"]]
    /\ OnlyProfiles /\ Writes

\* processCommission, lines 757-760
processCommission_mark(r) ==
    /\ req[r].pc = "cm_mark"
    /\ \E ok \in WriteOutcomes :
        LET q == req[r]
        IN  /\ Spend(ok)
            /\ referral_commissions' =
                   IF ok
                   THEN [referral_commissions EXCEPT ![q.cur].status = "processed"]
                   ELSE referral_commissions
            /\ req' = [req EXCEPT ![r] = [Noted(q, "sweep_status", ok) EXCEPT !.pc = "cm_tx"]]
    /\ OnlyCommissions /\ Writes

\* processCommission, lines 762-770
processCommission_transaction(r) ==
    /\ req[r].pc = "cm_tx"
    /\ \E ok \in WriteOutcomes :
        LET q == req[r]
            comm == referral_commissions[q.cur]
        IN  /\ Spend(ok)
            /\ transactions' = IF ok
                               THEN Append(transactions,
                                      Transaction(comm.referrer_id, comm.commission_amount,
                                                  "referral_commission"))
                               ELSE transactions
            /\ req' = [req EXCEPT ![r] =
                          CallMetric(Noted(q, "sweep_transaction", ok), "referral",
                                     comm.commission_amount, "sweep")]
    /\ OnlyTransactions /\ Writes

\* --------------------------------------------------------------- metrics
\* trackMetric, line 214
trackMetric_read(r) ==
    /\ req[r].pc = "tm_read"
    /\ LET q == req[r]
       IN  \E ok \in WriteOutcomes :
               /\ Spend(ok)
               /\ req' = [req EXCEPT ![r] =
                             IF ok
                             THEN [q EXCEPT !.pc = "tm_write",
                                            !.metRow = platform_metrics[q.metDay]]
                             ELSE AfterMetric(Noted(q, "metric_read", FALSE))]
    /\ FailingRead

\* trackMetric, lines 229-244: update the row read, or insert the day's row
\* (its id is pm_<date>, so a second insert for the day is rejected)
trackMetric_write(r) ==
    /\ req[r].pc = "tm_write"
    /\ \E ok \in WriteOutcomes :
        LET q == req[r]
            m == q.metRow
            field == MetricField(q.metType)
            updated == [platform_metrics[q.metDay] EXCEPT
                           !.total_rewards_issued = m.total_rewards_issued + q.metAmt,
                           !.total_daily_rewards = m.total_daily_rewards + q.metAmt,
                           ![field] = m[field] + q.metAmt]
            inserted == [NoMetric EXCEPT
                           !.exists = TRUE,
                           !.total_rewards_issued = q.metAmt,
                           !.total_daily_rewards = q.metAmt,
                           ![field] = q.metAmt]
        IN  /\ Spend(ok)
            /\ platform_metrics' =
                   IF ~ok THEN platform_metrics
                   ELSE IF m.exists THEN [platform_metrics EXCEPT ![q.metDay] = updated]
                   ELSE IF platform_metrics[q.metDay].exists THEN platform_metrics
                   ELSE [platform_metrics EXCEPT ![q.metDay] = inserted]
            /\ req' = [req EXCEPT ![r] = AfterMetric(Noted(q, "metric", ok))]
    /\ OnlyMetrics /\ Writes


\* ------------------------------------------------- ongoing commissions
\* processReferralCommission(userId, earnedAmount, sourceId); the earned amount
\* is the caller's q.reward.  Lines 626-629.
processReferralCommission_profile(r) ==
    /\ req[r].pc = "rc_profile"
    /\ LET q == req[r]
           profile == user_profiles[q.user]
       IN  req' = [req EXCEPT ![r] =
                      IF profile.referred_by = NoUser
                      THEN ReplyOk(q)
                      ELSE [q EXCEPT !.pc = "rc_tasks", !.referrer = profile.referred_by]]
    /\ Reads

\* line 632
processReferralCommission_tasks(r) ==
    /\ req[r].pc = "rc_tasks"
    /\ LET q == req[r]
           completed == Limit(Rows(user_tasks,
                                   LAMBDA row : row.user_id = q.user /\ row.status = "completed"), 5)
       IN  req' = [req EXCEPT ![r] = [q EXCEPT !.pc = "rc_redemptions", !.rcN = Len(completed)]]
    /\ Reads

\* lines 635-638
processReferralCommission_redemptions(r) ==
    /\ req[r].pc = "rc_redemptions"
    /\ LET q == req[r]
           mine == Limit(Rows(redemptions, LAMBDA row : row.user_id = q.user), 5)
       IN  req' = [req EXCEPT ![r] =
                      IF q.rcN + Len(mine) < MinActivity
                      THEN ReplyOk(q)
                      ELSE [q EXCEPT !.pc = "rc_referrer_ips"]]
    /\ Reads

\* the newest n of the redemptions with the indices in S (order by redeemed_at desc)
RECURSIVE Newest(_, _)
Newest(S, n) ==
    IF S = {} \/ n = 0 THEN {}
    ELSE LET i == CHOOSE x \in S : \A y \in S :
                     \/ redemptions[x].redeemed_at > redemptions[y].redeemed_at
                     \/ redemptions[x].redeemed_at = redemptions[y].redeemed_at /\ x >= y
         IN  {i} \cup Newest(S \ {i}, n - 1)

RedemptionsOf(u) == {i \in 1..Len(redemptions) : redemptions[i].user_id = u}
RedemptionsFrom(ip) == {i \in 1..Len(redemptions) : redemptions[i].ip_hash = ip}

\* line 641
processReferralCommission_referrerIps(r) ==
    /\ req[r].pc = "rc_referrer_ips"
    /\ LET q == req[r]
           ips == {redemptions[i].ip_hash : i \in Newest(RedemptionsOf(q.referrer), 5)}
       IN  req' = [req EXCEPT ![r] = [q EXCEPT !.pc = "rc_own_ips", !.rcIps = ips]]
    /\ Reads

\* the last read of processReferralCommission without the overlap test of line 648
processReferralCommission_ownIpsAny(r) ==
    /\ req[r].pc = "rc_own_ips"
    /\ LET q == req[r]
           commissionAmount == Round(q.reward * CommissionPercent, 100)
       IN  req' = [req EXCEPT ![r] =
                      IF commissionAmount < 1 THEN ReplyOk(q)
                      ELSE [q EXCEPT !.pc = "rc_insert", !.rcAmt = commissionAmount,
                                     !.rcAt = now, !.rcElig = now + CommissionDelay]]
    /\ Reads

\* lines 642-666
processReferralCommission_ownIps(r) ==
    /\ req[r].pc = "rc_own_ips"
    /\ LET q == req[r]
           ips == {redemptions[i].ip_hash : i \in Newest(RedemptionsOf(q.user), 5)}
           commissionAmount == Round(q.reward * CommissionPercent, 100)
       IN  req' = [req EXCEPT ![r] =
                      IF q.rcIps \cap ips # {} THEN [q EXCEPT !.pc = "rc_flag"]
                      ELSE IF commissionAmount < 1 THEN ReplyOk(q)
                      ELSE [q EXCEPT !.pc = "rc_insert", !.rcAmt = commissionAmount,
                                     !.rcAt = now, !.rcElig = now + CommissionDelay]]
    /\ Reads

\* lines 650-657
processReferralCommission_flag(r) ==
    /\ req[r].pc = "rc_flag"
    /\ \E ok \in WriteOutcomes :
        LET q == req[r]
        IN  /\ Spend(ok)
            /\ abuse_flags' = IF ok
                              THEN Append(abuse_flags,
                                     [user_id |-> q.user, flag_type |-> "referral_ip_match",
                                      severity |-> "low", resolved |-> FALSE])
                              ELSE abuse_flags
            /\ req' = [req EXCEPT ![r] = ReplyOk(Noted(q, "flag", ok))]
    /\ OnlyFlags /\ Writes

\* lines 668-676
processReferralCommission_insert(r) ==
    /\ req[r].pc = "rc_insert"
    /\ \E ok \in WriteOutcomes :
        LET q == req[r]
        IN  /\ Spend(ok)
            /\ referral_commissions' =
                   IF ok
                   THEN Append(referral_commissions,
                          [referrer_id |-> q.referrer, referred_id |-> q.user,
                           source_reward_id |-> q.rcSrc, commission_amount |-> q.rcAmt,
                           status |-> "pending", eligible_at |-> q.rcElig,
                           created_at |-> q.rcAt])
                   ELSE referral_commissions
            /\ req' = [req EXCEPT ![r] = ReplyOk(Noted(q, "commission", ok))]
    /\ OnlyCommissions /\ Writes

\* ------------------------------------------------------- abuse detection
Scaled(m, factor) == (m * (factor \div 1000)) \div (MultScale \div 1000)

\* checkAbuseThrottling's multiplier (lines 165-205) from what its three reads found
\* the multiplier without the floor of line 205
abuseMultiplierUnclamped(recentCount, clusterSize, flagCount) ==
    LET m1 == IF recentCount >= VelocityCount THEN Scaled(MultOne, MultVelocity) ELSE MultOne
        m2 == IF clusterSize > IpClusterSize THEN Scaled(m1, MultCluster) ELSE m1
    IN  IF flagCount > 0 /\ flagCount < LowFlagLimit THEN Scaled(m2, MultLowFlags) ELSE m2

abuseMultiplier(recentCount, clusterSize, flagCount) ==
    LET m1 == IF recentCount >= VelocityCount THEN Scaled(MultOne, MultVelocity) ELSE MultOne
        m2 == IF clusterSize > IpClusterSize THEN Scaled(m1, MultCluster) ELSE m1
        m3 == IF flagCount > 0 /\ flagCount < LowFlagLimit THEN Scaled(m2, MultLowFlags) ELSE m2
    IN  Max(m3, MultFloor)

\* redeemTaskCode, lines 535-545, once the multiplier is known
Throttled(q) ==
    LET m == abuseMultiplier(q.vel, q.cluster, q.flagsN)
    IN  IF q.win.task_id # "general"
        THEN [q EXCEPT !.pc = "rd_task", !.amult = m]
        ELSE [q EXCEPT !.pc = "rd_profile", !.amult = m,
                       !.reward = Round(DefaultCodeReward * m, MultScale)]

\* checkAbuseThrottling, lines 152-168
checkAbuseThrottling_flags(r) ==
    /\ req[r].pc = "ab_flags"
    /\ LET q == req[r]
           flags == Limit(Rows(abuse_flags,
                               LAMBDA f : f.user_id = q.user /\ ~f.resolved), 10)
           high == {i \in 1..Len(flags) : abuse_flags[flags[i]].severity \in {"high", "critical"}}
       IN  req' = [req EXCEPT ![r] =
                      IF high # {}
                      THEN Reply(q, 400, "Account flagged for review")
                      ELSE [q EXCEPT !.pc = "ab_velocity", !.flagsN = Len(flags),
                                     !.cut = now - VelocityWindow]]
    /\ Reads

\* lines 169-179
checkAbuseThrottling_velocity(r) ==
    /\ req[r].pc = "ab_velocity"
    /\ LET q == req[r]
           recent == {i \in Newest(RedemptionsOf(q.user), 20) : redemptions[i].redeemed_at > q.cut}
       IN  req' = [req EXCEPT ![r] =
                      [q EXCEPT !.pc = "ab_cluster", !.vel = Cardinality(recent),
                                !.cut = now - IpClusterWindow]]
    /\ Reads

\* lines 180-187, and 200-205 when no cluster is flagged
checkAbuseThrottling_cluster(r) ==
    /\ req[r].pc = "ab_cluster"
    /\ LET q == req[r]
           uniqueUsersFromIP ==
               {redemptions[i].user_id :
                   i \in {j \in Newest(RedemptionsFrom(q.ip), 50) : redemptions[j].redeemed_at > q.cut}}
           q1 == [q EXCEPT !.cluster = Cardinality(uniqueUsersFromIP)]
       IN  req' = [req EXCEPT ![r] =
                      IF q1.cluster > IpClusterSize
                      THEN [q1 EXCEPT !.pc = "ab_flag"]
                      ELSE Throttled(q1)]
    /\ Reads

\* lines 189-196
checkAbuseThrottling_flag(r) ==
    /\ req[r].pc = "ab_flag"
    /\ \E ok \in WriteOutcomes :
        LET q == req[r]
        IN  /\ Spend(ok)
            /\ abuse_flags' = IF ok
                              THEN Append(abuse_flags,
                                     [user_id |-> q.user, flag_type |-> "multi_account_ip",
                                      severity |-> "medium", resolved |-> FALSE])
                              ELSE abuse_flags
            /\ req' = [req EXCEPT ![r] = Throttled(Noted(q, "flag", ok))]
    /\ OnlyFlags /\ Writes


\* the validity test with the upper bound left out
OutsideValidityLower(window, t) == t < window.valid_from

\* line 509: now < new Date(window.valid_from) || now > new Date(window.valid_until)
OutsideValidity(window, t) == t < window.valid_from \/ t > window.valid_until

\* ------------------------------------------------------- code redemption
\* redeemTaskCode, lines 483-520
redeemTaskCode_find(r) ==
    /\ req[r].pc = "rd_find"
    /\ LET q == req[r]
           cleanCode == CleanCode(q.code)
           windows == {w \in DOMAIN task_code_windows :
                          /\ task_code_windows[w].code = cleanCode
                          /\ task_code_windows[w].is_active}
           failure == trackFailedAttempt(failedAttempts, q.user, now)
       IN  IF CodeLength(q.code) < MinCodeLen
           THEN /\ failedAttempts' = failure.map
                /\ req' = [req EXCEPT ![r] = Reply(q, 400, "Invalid code format")]
           ELSE IF windows = {}
           THEN /\ failedAttempts' = failure.map
                /\ req' = [req EXCEPT ![r] =
                              IF failure.count >= BruteForceCount
                              THEN [q EXCEPT !.pc = "rd_flag"]
                              ELSE Reply(q, 400, "Invalid or expired code")]
           ELSE \E w \in windows :
                    LET window == task_code_windows[w]
                    IN  IF OutsideValidity(window, now)
                        THEN /\ failedAttempts' = failure.map
                             /\ req' = [req EXCEPT ![r] =
                                           Reply(q, 400, "Code has expired or not yet active")]
                        ELSE IF /\ window.max_redemptions # 0
                                /\ window.current_redemptions >= window.max_redemptions
                        THEN /\ UNCHANGED failedAttempts
                             /\ req' = [req EXCEPT ![r] =
                                           Reply(q, 400, "Code has reached maximum redemptions")]
                        ELSE /\ UNCHANGED failedAttempts
                             /\ req' = [req EXCEPT ![r] =
                                           [q EXCEPT !.pc = "rd_duplicate", !.win = window,
                                                     !.at = now]]
    /\ UNCHANGED <<now, tables, rateLimits, issued, faultsLeft>>

\* lines 496-505: the brute-force flag
redeemTaskCode_flag(r) ==
    /\ req[r].pc = "rd_flag"
    /\ \E ok \in WriteOutcomes :
        LET q == req[r]
        IN  /\ Spend(ok)
            /\ abuse_flags' = IF ok
                              THEN Append(abuse_flags,
                                     [user_id |-> q.user, flag_type |-> "brute_force_codes",
                                      severity |-> "medium", resolved |-> FALSE])
                              ELSE abuse_flags
            /\ req' = [req EXCEPT ![r] = Reply(Noted(q, "flag", ok), 400, "Invalid or expired code")]
    /\ OnlyFlags /\ Writes

\* lines 522-530
redeemTaskCode_duplicate(r) ==
    /\ req[r].pc = "rd_duplicate"
    /\ LET q == req[r]
           existingRedemption ==
               Limit(Rows(redemptions,
                          LAMBDA row : row.user_id = q.user /\ row.window_id = q.win.id), 1)
       IN  req' = [req EXCEPT ![r] =
                      IF Len(existingRedemption) > 0
                      THEN Reply(q, 400, "You already redeemed this code")
                      ELSE [q EXCEPT !.pc = "ab_flags"]]
    /\ Reads

\* lines 537-545
redeemTaskCode_task(r) ==
    /\ req[r].pc = "rd_task"
    /\ LET q == req[r]
           rewardAmount ==
               IF q.win.task_id \in TaskIds /\ tasks[q.win.task_id].reward_amount # 0
               THEN tasks[q.win.task_id].reward_amount
               ELSE DefaultCodeReward
       IN  req' = [req EXCEPT ![r] =
                      [q EXCEPT !.pc = "rd_profile",
                                !.reward = Round(rewardAmount * q.amult, MultScale)]]
    /\ Reads

\* lines 548-549
redeemTaskCode_profile(r) ==
    /\ req[r].pc = "rd_profile"
    /\ LET q == req[r]
       IN  req' = [req EXCEPT ![r] =
                      [q EXCEPT !.pc = "rd_insert", !.prof = user_profiles[q.user]]]
    /\ Reads

\* lines 554-565
redeemTaskCode_insert(r) ==
    /\ req[r].pc = "rd_insert"
    /\ \E ok \in WriteOutcomes :
        LET q == Noted(req[r], "redemption", ok)
        IN  /\ Spend(ok)
            /\ redemptions' = IF ok
                              THEN Append(redemptions,
                                     [user_id |-> q.user, task_id |-> q.win.task_id,
                                      window_id |-> q.win.id, redeemed_at |-> q.at,
                                      ip_hash |-> q.ip])
                              ELSE redemptions
            /\ req' = [req EXCEPT ![r] =
                          IF ok THEN [q EXCEPT !.pc = "rd_window"]
                          ELSE Reply(q, 500, "Failed to process redemption")]
    /\ OnlyRedemptions /\ Writes

\* lines 568-572
redeemTaskCode_window(r) ==
    /\ req[r].pc = "rd_window"
    /\ \E ok \in WriteOutcomes :
        LET q == Noted(req[r], "window", ok)
        IN  /\ Spend(ok)
            /\ task_code_windows' =
                   IF ok
                   THEN [task_code_windows EXCEPT
                            ![q.win.id].current_redemptions = q.win.current_redemptions + 1]
                   ELSE task_code_windows
            /\ req' = [req EXCEPT ![r] =
                          IF ok THEN [q EXCEPT !.pc = "rd_credit"]
                          ELSE Reply(q, 500, "Failed to process redemption")]
    /\ OnlyWindows /\ Writes

\* lines 575-581
redeemTaskCode_credit(r) ==
    /\ req[r].pc = "rd_credit"
    /\ \E ok \in WriteOutcomes :
        LET q == Noted(req[r], "profile", ok)
        IN  /\ Spend(ok)
            /\ user_profiles' = IF ok
                                THEN Credited(q.user, q.prof, q.reward, RedeemXp)
                                ELSE user_profiles
            /\ req' = [req EXCEPT ![r] =
                          IF ok THEN [q EXCEPT !.pc = "rd_tx"]
                          ELSE Reply(q, 500, "Failed to process redemption")]
    /\ OnlyProfiles /\ Writes

\* lines 584-590
redeemTaskCode_transaction(r) ==
    /\ req[r].pc = "rd_tx"
    /\ \E ok \in WriteOutcomes :
        LET q == Noted(req[r], "transaction", ok)
        IN  /\ Spend(ok)
            /\ transactions' = IF ok
                               THEN Append(transactions,
                                      Transaction(q.user, q.reward, "code_redemption"))
                               ELSE transactions
            /\ req' = [req EXCEPT ![r] = [q EXCEPT !.pc = "rd_log"]]
    /\ OnlyTransactions /\ Writes

\* lines 593-607
redeemTaskCode_log(r) ==
    /\ req[r].pc = "rd_log"
    /\ \E ok \in WriteOutcomes :
        LET q == Noted(req[r], "log", ok)
        IN  /\ Spend(ok)
            /\ reward_logs' = IF ok
                              THEN Append(reward_logs,
                                     RewardLog(q.user, "code_redemption", q.reward, q.win.id))
                              ELSE reward_logs
            /\ req' = [req EXCEPT ![r] =
                          CallMetric([q EXCEPT !.rcSrc = q.win.id], "code", q.reward, "commission")]
    /\ OnlyLogs /\ Writes

\* ------------------------------------------------------- task completion
\* completeTask, lines 894-901
completeTask_task(r) ==
    /\ req[r].pc = "ct_task"
    /\ LET q == req[r]
       IN  req' = [req EXCEPT ![r] =
                      IF q.task \notin TaskIds THEN Reply(q, 400, "Task not found")
                      ELSE IF ~tasks[q.task].is_active
                      THEN Reply(q, 400, "Task is no longer active")
                      ELSE [q EXCEPT !.pc = "ct_profile"]]
    /\ Reads

\* Math.floor((profile.total_earned || 0) / 500) + 1
userLevel(profile) == (profile.total_earned \div 500) + 1

\* lines 903-910
completeTask_profile(r) ==
    /\ req[r].pc = "ct_profile"
    /\ LET q == req[r]
           profile == user_profiles[q.user]
           task == tasks[q.task]
       IN  req' = [req EXCEPT ![r] =
                      IF task.required_level # 0 /\ userLevel(profile) < task.required_level
                      THEN Reply(q, 400, "Requires Level")
                      ELSE [q EXCEPT !.pc = "ct_completions", !.prof = profile]]
    /\ Reads

\* lines 934-941: the milestone gates, by task id
MilestoneLocked(taskId, profile) ==
    \/ taskId = "task_earn_1000" /\ profile.total_earned < 1000
    \/ taskId = "task_earn_10000" /\ profile.total_earned < 10000
    \/ taskId = "task_streak_7" /\ profile.daily_streak < 7

\* lines 912-944
completeTask_completions(r) ==
    /\ req[r].pc = "ct_completions"
    /\ LET q == req[r]
           task == tasks[q.task]
           existingCompletions ==
               Limit(Rows(user_tasks,
                          LAMBDA row : row.user_id = q.user /\ row.task_id = q.task), 10)
           completedToday ==
               \E i \in 1..Len(existingCompletions) :
                   DateOf(user_tasks[existingCompletions[i]].completed_at) = DateOf(now)
       IN  req' = [req EXCEPT ![r] =
                      IF task.task_type = "one_time" /\ Len(existingCompletions) > 0
                      THEN Reply(q, 400, "Task already completed")
                      ELSE IF task.task_type = "daily" /\ completedToday
                      THEN Reply(q, 400, "Daily task already completed today")
                      ELSE IF task.category = "referral"
                      THEN [q EXCEPT !.pc = "ct_referrals"]
                      ELSE IF task.category = "milestone" /\ MilestoneLocked(q.task, q.prof)
                      THEN Reply(q, 400, "Milestone not reached")
                      ELSE [q EXCEPT !.pc = "ct_insert", !.reward = task.reward_amount,
                                     !.xp = task.xp_reward]]
    /\ Reads

\* lines 947-953
completeTask_insert(r) ==
    /\ req[r].pc = "ct_insert"
    /\ \E ok \in WriteOutcomes :
        LET q == Noted(req[r], "user_task", ok)
        IN  /\ Spend(ok)
            /\ user_tasks' = IF ok
                             THEN Append(user_tasks,
                                    [user_id |-> q.user, task_id |-> q.task,
                                     status |-> "completed", completed_at |-> now])
                             ELSE user_tasks
            /\ req' = [req EXCEPT ![r] = [q EXCEPT !.pc = "ct_credit"]]
    /\ OnlyUserTasks /\ Writes

\* lines 955-959
completeTask_credit(r) ==
    /\ req[r].pc = "ct_credit"
    /\ \E ok \in WriteOutcomes :
        LET q == Noted(req[r], "profile", ok)
        IN  /\ Spend(ok)
            /\ user_profiles' = IF ok
                                THEN Credited(q.user, q.prof, q.reward, q.xp)
                                ELSE user_profiles
            /\ req' = [req EXCEPT ![r] = [q EXCEPT !.pc = "ct_tx"]]
    /\ OnlyProfiles /\ Writes

\* lines 961-967
completeTask_transaction(r) ==
    /\ req[r].pc = "ct_tx"
    /\ \E ok \in WriteOutcomes :
        LET q == Noted(req[r], "transaction", ok)
        IN  /\ Spend(ok)
            /\ transactions' = IF ok
                               THEN Append(transactions, Transaction(q.user, q.reward, "task"))
                               ELSE transactions
            /\ req' = [req EXCEPT ![r] = [q EXCEPT !.pc = "ct_log"]]
    /\ OnlyTransactions /\ Writes

\* lines 969-979
completeTask_log(r) ==
    /\ req[r].pc = "ct_log"
    /\ \E ok \in WriteOutcomes :
        LET q == Noted(req[r], "log", ok)
        IN  /\ Spend(ok)
            /\ reward_logs' = IF ok
                              THEN Append(reward_logs, RewardLog(q.user, "task", q.reward, q.task))
                              ELSE reward_logs
            /\ req' = [req EXCEPT ![r] =
                          CallMetric([q EXCEPT !.rcSrc = q.task], "task", q.reward, "commission")]
    /\ OnlyLogs /\ Writes

\* The caller's request { action: "complete_task", taskId }.
RequestTask(r, u, t) ==
    handler(r, [IdleReq EXCEPT !.user = u, !.action = "complete_task", !.task = t])

\* ------------------------------------------------------------ game result
\* Math.random() decides the multiplier: any of the game's outcomes
GameMultipliers(gameType) ==
    CASE gameType = "roulette" -> {0, 2, 5}
      [] gameType = "coinflip" -> {0, 2}
      [] OTHER -> {0}

\* gameResult without the comparison of the balance with the bet
gameResult_profileUnchecked(r) ==
    /\ req[r].pc = "gr_profile"
    /\ \E multiplier \in GameMultipliers(req[r].game) :
        LET q == req[r]
            profile == user_profiles[q.user]
        IN  req' = [req EXCEPT ![r] =
                       IF q.bet < 10 \/ q.bet > 1000
                       THEN Reply(q, 400, "Bet must be between 10-1000 BIX")
                       ELSE [q EXCEPT !.pc = "gr_credit", !.prof = profile,
                                      !.gmult = multiplier,
                                      !.reward = (q.bet * multiplier) - q.bet]]
    /\ Reads

\* gameResult, lines 1256-1278
gameResult_profile(r) ==
    /\ req[r].pc = "gr_profile"
    /\ \E multiplier \in GameMultipliers(req[r].game) :
        LET q == req[r]
            profile == user_profiles[q.user]
        IN  req' = [req EXCEPT ![r] =
                       IF q.bet < 10 \/ q.bet > 1000
                       THEN Reply(q, 400, "Bet must be between 10-1000 BIX")
                       ELSE IF profile.balance < q.bet
                       THEN Reply(q, 400, "Insufficient balance")
                       ELSE [q EXCEPT !.pc = "gr_credit", !.prof = profile,
                                      !.gmult = multiplier,
                                      !.reward = (q.bet * multiplier) - q.bet]]
    /\ Reads

\* lines 1280-1282
gameResult_credit(r) ==
    /\ req[r].pc = "gr_credit"
    /\ \E ok \in WriteOutcomes :
        LET q == Noted(req[r], "profile", ok)
        IN  /\ Spend(ok)
            /\ user_profiles' = IF ok
                                THEN [user_profiles EXCEPT
                                         ![q.user].balance = q.prof.balance + q.reward]
                                ELSE user_profiles
            /\ req' = [req EXCEPT ![r] = [q EXCEPT !.pc = "gr_tx"]]
    /\ OnlyProfiles /\ Writes

\* lines 1284-1292
gameResult_transaction(r) ==
    /\ req[r].pc = "gr_tx"
    /\ \E ok \in WriteOutcomes :
        LET q == Noted(req[r], "transaction", ok)
        IN  /\ Spend(ok)
            /\ transactions' = IF ok
                               THEN Append(transactions, Transaction(q.user, q.reward, "game"))
                               ELSE transactions
            /\ req' = [req EXCEPT ![r] =
                          CallMetric(q, "game", Max(q.reward, 0), "reply")]
    /\ OnlyTransactions /\ Writes

\* The caller's request { action: "game_result", gameType, betAmount }.
RequestGame(r, u, gameType, betAmount) ==
    handler(r, [IdleReq EXCEPT !.user = u, !.action = "game_result",
                               !.game = gameType, !.bet = betAmount])

\* The caller's request { action: "redeem_task_code", code }.
RequestRedeem(r, u, action, code, ip) ==
    handler(r, [IdleReq EXCEPT !.user = u, !.action = action, !.code = code, !.ip = ip])

\* --------------------------------------------------------- pending rewards
\* getPendingRewards, lines 1305-1309
getPendingRewards(r) ==
    /\ req[r].pc = "gp_list"
    /\ req' = [req EXCEPT ![r] = ReplyOk(req[r])]
    /\ Reads

\* The caller's request { action: "get_pending_rewards" }.
RequestPending(r, u) ==
    handler(r, [IdleReq EXCEPT !.user = u, !.action = "get_pending_rewards"])

\* ------------------------------------------------------------------ quizzes
\* The question bank: written by an administrator, only read by the engine.
EasyPool == {"e1", "e2", "e3", "e4", "e5"}
HardPool == {"h1", "h2", "h3", "h4", "h5", "h6", "h7", "h8", "h9", "h10"}
QuestionIds == EasyPool \cup HardPool
quizzes ==
    [id \in QuestionIds |->
        IF id \in EasyPool
        THEN [difficulty |-> "easy", reward_amount |-> 5, correct_option |-> 1]
        ELSE [difficulty |-> "hard", reward_amount |-> 20, correct_option |-> 1]]

\* validCounts of startQuiz
validCounts == {5, 10, 20, 50}

\* the active sessions of a user, as .eq("user_id").eq("status", "active") finds them
ActiveSessions(u) ==
    Rows(quiz_sessions, LAMBDA row : row.user_id = u /\ row.status = "active")

\* startQuiz, lines 1068-1085
startQuiz_active(r) ==
    /\ req[r].pc = "sq_active"
    /\ LET q == req[r]
           activeSessions == Limit(ActiveSessions(q.user), 1)
       IN  req' = [req EXCEPT ![r] =
                      IF q.count \notin validCounts
                      THEN Reply(q, 400, "Invalid question count. Choose 5, 10, 20, or 50")
                      ELSE IF Len(activeSessions) = 0
                      THEN [q EXCEPT !.pc = "sq_questions"]
                      ELSE IF now - quiz_sessions[activeSessions[1]].started_at > StaleMinutes
                      THEN [q EXCEPT !.pc = "sq_expire", !.sid = activeSessions[1]]
                      ELSE Reply(q, 400, "You already have an active quiz session")]
    /\ Reads

\* line 1081: the stale session is expired; the result of the update is not looked at
startQuiz_expire(r) ==
    /\ req[r].pc = "sq_expire"
    /\ \E ok \in WriteOutcomes :
        LET q == Noted(req[r], "expired", ok)
        IN  /\ Spend(ok)
            /\ quiz_sessions' = IF ok
                                THEN [quiz_sessions EXCEPT ![q.sid].status = "expired"]
                                ELSE quiz_sessions
            /\ req' = [req EXCEPT ![r] = [q EXCEPT !.pc = "sq_questions"]]
    /\ OnlySessions /\ Writes

\* shuffled.slice(0, questionCount): Math.random() may select any questionCount of them
Selections(pool, n) == {S \in SUBSET pool : Cardinality(S) = n}

\* lines 1087-1092, and 1102-1104 when the difficulty has enough questions
startQuiz_questions(r) ==
    /\ req[r].pc = "sq_questions"
    /\ LET q == req[r]
           allQuestions == {id \in QuestionIds : quizzes[id].difficulty = q.diff}
       IN  IF Cardinality(allQuestions) < q.count
           THEN req' = [req EXCEPT ![r] = [q EXCEPT !.pc = "sq_mixed"]]
           ELSE \E selected \in Selections(allQuestions, q.count) :
                    req' = [req EXCEPT ![r] =
                               [q EXCEPT !.pc = "sq_insert",
                                         !.sess = [NoSession EXCEPT !.question_ids = selected]]]
    /\ Reads

\* lines 1093-1104: every difficulty together
startQuiz_mixed(r) ==
    /\ req[r].pc = "sq_mixed"
    /\ LET q == req[r]
       IN  IF Cardinality(QuestionIds) < q.count
           THEN req' = [req EXCEPT ![r] = Reply(q, 400, "Not enough questions available")]
           ELSE \E selected \in Selections(QuestionIds, q.count) :
                    req' = [req EXCEPT ![r] =
                               [q EXCEPT !.pc = "sq_insert",
                                         !.sess = [NoSession EXCEPT !.question_ids = selected]]]
    /\ Reads

\* lines 1106-1128: the insert's result is not looked at
startQuiz_insert(r) ==
    /\ req[r].pc = "sq_insert"
    /\ \E ok \in WriteOutcomes :
        LET q == Noted(req[r], "session", ok)
            sessionId == Len(quiz_sessions) + 1
        IN  /\ Spend(ok)
            /\ quiz_sessions' =
                   IF ok
                   THEN Append(quiz_sessions,
                          [q.sess EXCEPT !.id = sessionId, !.user_id = q.user,
                                         !.status = "active", !.started_at = now])
                   ELSE quiz_sessions
            /\ req' = [req EXCEPT ![r] = ReplyOk([q EXCEPT !.sid = sessionId])]
    /\ OnlySessions /\ Writes

\* .eq("id", sessionId).eq("user_id", userId).eq("status", "active").limit(1)
FoundSession(sid, u) ==
    /\ sid \in 1..Len(quiz_sessions)
    /\ quiz_sessions[sid].user_id = u
    /\ quiz_sessions[sid].status = "active"

\* quizAnswer, lines 1132-1149
\* the checks of quizAnswer without the one for a question already answered
quizAnswer_sessionRepeats(r) ==
    /\ req[r].pc = "qa_session"
    /\ LET q == req[r]
       IN  req' = [req EXCEPT ![r] =
                      IF ~FoundSession(q.sid, q.user)
                      THEN Reply(q, 400, "Invalid or expired session")
                      ELSE IF q.qid \notin quiz_sessions[q.sid].question_ids
                      THEN Reply(q, 400, "Question not in this session")
                      ELSE [q EXCEPT !.pc = "qa_question", !.sess = quiz_sessions[q.sid]]]
    /\ Reads

quizAnswer_session(r) ==
    /\ req[r].pc = "qa_session"
    /\ LET q == req[r]
       IN  req' = [req EXCEPT ![r] =
                      IF ~FoundSession(q.sid, q.user)
                      THEN Reply(q, 400, "Invalid or expired session")
                      ELSE IF q.qid \notin quiz_sessions[q.sid].question_ids
                      THEN Reply(q, 400, "Question not in this session")
                      ELSE IF q.qid \in quiz_sessions[q.sid].answered_ids
                      THEN Reply(q, 400, "Question already answered")
                      ELSE [q EXCEPT !.pc = "qa_question", !.sess = quiz_sessions[q.sid]]]
    /\ Reads

\* lines 1151-1160
quizAnswer_question(r) ==
    /\ req[r].pc = "qa_question"
    /\ LET q == req[r]
           question == quizzes[q.qid]
           isCorrect == q.opt = question.correct_option
           earnedForThis == IF isCorrect THEN question.reward_amount ELSE 0
       IN  req' = [req EXCEPT ![r] =
                      [q EXCEPT !.pc = "qa_update", !.reward = earnedForThis,
                                !.sess = [q.sess EXCEPT
                                             !.answered_ids = @ \cup {q.qid},
                                             !.score = @ + (IF isCorrect THEN 1 ELSE 0),
                                             !.total_earned = @ + earnedForThis]]]
    /\ Reads

\* lines 1162-1176: the three columns are written from the session read earlier
quizAnswer_update(r) ==
    /\ req[r].pc = "qa_update"
    /\ \E ok \in WriteOutcomes :
        LET q == Noted(req[r], "answer", ok)
        IN  /\ Spend(ok)
            /\ quiz_sessions' =
                   IF ok
                   THEN [quiz_sessions EXCEPT
                            ![q.sid] = [@ EXCEPT !.answered_ids = q.sess.answered_ids,
                                                 !.score = q.sess.score,
                                                 !.total_earned = q.sess.total_earned]]
                   ELSE quiz_sessions
            /\ req' = [req EXCEPT ![r] = ReplyOk(q)]
    /\ OnlySessions /\ Writes

\* a bonus that drops the half
bonusTruncated(score, questionCount, totalEarned) ==
    IF score = questionCount THEN totalEarned \div 2 ELSE 0

\* finishQuiz, lines 1194-1201: Math.round(totalReward * 0.5) on a perfect score
bonusReward(score, questionCount, totalEarned) ==
    IF score = questionCount THEN Round(totalEarned, 2) ELSE 0

\* answeredIds.length < questionIds.length
Unanswered(session) ==
    Cardinality(session.answered_ids) < Cardinality(session.question_ids)

\* finishQuiz, lines 1180-1203
finishQuiz_session(r) ==
    /\ req[r].pc = "fq_session"
    /\ LET q == req[r]
           session == quiz_sessions[q.sid]
           bonus == bonusReward(session.score, Cardinality(session.question_ids),
                                session.total_earned)
       IN  req' = [req EXCEPT ![r] =
                      IF ~FoundSession(q.sid, q.user)
                      THEN Reply(q, 400, "Invalid or expired session")
                      ELSE IF Unanswered(session)
                      THEN Reply(q, 400, "Answer all questions first")
                      ELSE [q EXCEPT !.pc = "fq_complete", !.sess = session,
                                     !.bonus = bonus,
                                     !.reward = session.total_earned + bonus,
                                     !.xp = session.score * ScoreXp
                                            + (IF bonus > 0 THEN PerfectXp ELSE 0)]]
    /\ Reads

\* lines 1205-1209
finishQuiz_complete(r) ==
    /\ req[r].pc = "fq_complete"
    /\ \E ok \in WriteOutcomes :
        LET q == Noted(req[r], "session", ok)
        IN  /\ Spend(ok)
            /\ quiz_sessions' =
                   IF ok
                   THEN [quiz_sessions EXCEPT
                            ![q.sid] = [@ EXCEPT !.status = "completed",
                                                 !.total_earned = q.reward]]
                   ELSE quiz_sessions
            /\ req' = [req EXCEPT ![r] = [q EXCEPT !.pc = "fq_profile"]]
    /\ OnlySessions /\ Writes

\* lines 1211-1212: when the read fails the credit is skipped
finishQuiz_profile(r) ==
    /\ req[r].pc = "fq_profile"
    /\ \E ok \in WriteOutcomes :
        LET q == req[r]
        IN  /\ Spend(ok)
            /\ req' = [req EXCEPT ![r] =
                          IF ok THEN [q EXCEPT !.pc = "fq_credit", !.prof = user_profiles[q.user]]
                          ELSE [q EXCEPT !.pc = "fq_tx", !.failed = @ \cup {"profile_read"}]]
    /\ UNCHANGED <<now, tables, memory, issued>>

\* lines 1213-1219
finishQuiz_credit(r) ==
    /\ req[r].pc = "fq_credit"
    /\ \E ok \in WriteOutcomes :
        LET q == Noted(req[r], "profile", ok)
        IN  /\ Spend(ok)
            /\ user_profiles' = IF ok
                                THEN Credited(q.user, q.prof, q.reward, q.xp)
                                ELSE user_profiles
            /\ req' = [req EXCEPT ![r] = [q EXCEPT !.pc = "fq_tx"]]
    /\ OnlyProfiles /\ Writes

\* lines 1221-1227
finishQuiz_transaction(r) ==
    /\ req[r].pc = "fq_tx"
    /\ \E ok \in WriteOutcomes :
        LET q == Noted(req[r], "transaction", ok)
        IN  /\ Spend(ok)
            /\ transactions' = IF ok
                               THEN Append(transactions, Transaction(q.user, q.reward, "quiz"))
                               ELSE transactions
            /\ req' = [req EXCEPT ![r] = [q EXCEPT !.pc = "fq_log"]]
    /\ OnlyTransactions /\ Writes

\* lines 1229-1239
finishQuiz_log(r) ==
    /\ req[r].pc = "fq_log"
    /\ \E ok \in WriteOutcomes :
        LET q == Noted(req[r], "log", ok)
        IN  /\ Spend(ok)
            /\ reward_logs' = IF ok
                              THEN Append(reward_logs, RewardLog(q.user, "quiz", q.reward, "quiz_session"))
                              ELSE reward_logs
            /\ req' = [req EXCEPT ![r] =
                          CallMetric([q EXCEPT !.rcSrc = "quiz_session"], "quiz", q.reward,
                                     "commission")]
    /\ OnlyLogs /\ Writes

\* The caller's requests { action: "start_quiz" | "quiz_answer" | "finish_quiz", ... }.
RequestStart(r, u, questionCount, difficulty) ==
    handler(r, [IdleReq EXCEPT !.user = u, !.action = "start_quiz",
                               !.count = questionCount, !.diff = difficulty])

RequestAnswer(r, u, sessionId, questionId, selectedOption) ==
    handler(r, [IdleReq EXCEPT !.user = u, !.action = "quiz_answer", !.sid = sessionId,
                               !.qid = questionId, !.opt = selectedOption])

RequestFinish(r, u, sessionId) ==
    handler(r, [IdleReq EXCEPT !.user = u, !.action = "finish_quiz", !.sid = sessionId])

\* ---------------------------------------------------------------- referral
\* The referral codes a caller may send; profile.referral_code of u is "REF_" u.
RefCodes == {"REF_u1", "REF_u2", "REF_none"}

\* .eq("referral_code", referralCode).limit(1)
ReferrerOf(code) ==
    CASE code = "REF_u1" -> "u1"
      [] code = "REF_u2" -> "u2"
      [] OTHER -> NoUser

\* the lookup of the referrer without the comparison of line 791
processReferral_referrerAny(r) ==
    /\ req[r].pc = "pr_referrer"
    /\ LET q == req[r]
           referrer == ReferrerOf(q.refcode)
       IN  req' = [req EXCEPT ![r] =
                      IF referrer = NoUser
                      THEN Reply(q, 400, "Invalid referral code - referrer not found")
                      ELSE [q EXCEPT !.pc = "pr_profile", !.referrer = referrer]]
    /\ Reads

\* processReferral, lines 779-793
processReferral_referrer(r) ==
    /\ req[r].pc = "pr_referrer"
    /\ LET q == req[r]
           referrer == ReferrerOf(q.refcode)
       IN  req' = [req EXCEPT ![r] =
                      IF referrer = NoUser
                      THEN Reply(q, 400, "Invalid referral code - referrer not found")
                      ELSE IF referrer = q.user THEN Reply(q, 400, "Cannot refer yourself")
                      ELSE [q EXCEPT !.pc = "pr_profile", !.referrer = referrer]]
    /\ Reads

\* lines 796-799
processReferral_profile(r) ==
    /\ req[r].pc = "pr_profile"
    /\ LET q == req[r]
           newProfile == user_profiles[q.user]
       IN  req' = [req EXCEPT ![r] =
                      IF newProfile.referred_by # NoUser
                      THEN Reply(q, 400, "User already has a referrer")
                      ELSE [q EXCEPT !.pc = "pr_history", !.prof = newProfile]]
    /\ Reads

\* lines 802-805
processReferral_history(r) ==
    /\ req[r].pc = "pr_history"
    /\ LET q == req[r]
           existingReferral ==
               Limit(Rows(referral_history, LAMBDA row : row.referred_id = q.user), 1)
       IN  req' = [req EXCEPT ![r] =
                      IF Len(existingReferral) > 0
                      THEN Reply(q, 400, "Referral already processed")
                      ELSE [q EXCEPT !.pc = "pr_ips"]]
    /\ Reads

\* lines 808-811
processReferral_ips(r) ==
    /\ req[r].pc = "pr_ips"
    /\ LET q == req[r]
           referrerRedemptions ==
               Limit(Rows(redemptions, LAMBDA row : row.user_id = q.referrer), 5)
           referrerIPs == {redemptions[referrerRedemptions[i]].ip_hash :
                              i \in 1..Len(referrerRedemptions)}
       IN  req' = [req EXCEPT ![r] =
                      IF q.ip \in referrerIPs THEN [q EXCEPT !.pc = "pr_flag"]
                      ELSE [q EXCEPT !.pc = "pr_recent"]]
    /\ Reads

\* lines 812-819
processReferral_flag(r) ==
    /\ req[r].pc = "pr_flag"
    /\ \E ok \in WriteOutcomes :
        LET q == req[r]
        IN  /\ Spend(ok)
            /\ abuse_flags' = IF ok
                              THEN Append(abuse_flags,
                                     [user_id |-> q.user, flag_type |-> "referral_same_ip",
                                      severity |-> "high", resolved |-> FALSE])
                              ELSE abuse_flags
            /\ req' = [req EXCEPT ![r] =
                          Reply(Noted(q, "flag", ok), 400,
                                "Referral rejected: suspicious activity detected")]
    /\ OnlyFlags /\ Writes

\* lines 823-835
processReferral_recent(r) ==
    /\ req[r].pc = "pr_recent"
    /\ LET q == req[r]
           recentReferrals ==
               Limit(Rows(referral_history, LAMBDA row : row.referrer_id = q.referrer), 50)
           todayReferrals ==
               {i \in 1..Len(recentReferrals) :
                   DateOf(referral_history[recentReferrals[i]].created_at) = DateOf(now)}
       IN  req' = [req EXCEPT ![r] =
                      IF Cardinality(todayReferrals) >= ReferralDailyCap
                      THEN Reply(q, 400, "Referrer daily limit reached")
                      ELSE [q EXCEPT !.pc = "pr_insert", !.reward = NewUserReward,
                                     !.xp = NewUserXp]]
    /\ Reads

\* lines 839-844: the store's errors are returned, not thrown, and not looked at
processReferral_insert(r) ==
    /\ req[r].pc = "pr_insert"
    /\ \E ok \in WriteOutcomes :
        LET q == Noted(req[r], "history", ok)
        IN  /\ Spend(ok)
            /\ referral_history' =
                   IF ok
                   THEN Append(referral_history,
                          [referrer_id |-> q.referrer, referred_id |-> q.user,
                           reward_amount |-> 0, created_at |-> now])
                   ELSE referral_history
            /\ req' = [req EXCEPT ![r] = [q EXCEPT !.pc = "pr_credit"]]
    /\ OnlyHistory /\ Writes

\* lines 847-855
processReferral_credit(r) ==
    /\ req[r].pc = "pr_credit"
    /\ \E ok \in WriteOutcomes :
        LET q == Noted(req[r], "profile", ok)
        IN  /\ Spend(ok)
            /\ user_profiles' =
                   IF ok
                   THEN [Credited(q.user, q.prof, q.reward, q.xp) EXCEPT
                            ![q.user].referred_by = q.referrer]
                   ELSE user_profiles
            /\ req' = [req EXCEPT ![r] = [q EXCEPT !.pc = "pr_tx"]]
    /\ OnlyProfiles /\ Writes

\* lines 858-864, and the eligibleAt of line 867
processReferral_transaction(r) ==
    /\ req[r].pc = "pr_tx"
    /\ \E ok \in WriteOutcomes :
        LET q == Noted(req[r], "transaction", ok)
        IN  /\ Spend(ok)
            /\ transactions' = IF ok
                               THEN Append(transactions, Transaction(q.user, q.reward, "referral"))
                               ELSE transactions
            /\ req' = [req EXCEPT ![r] =
                          [q EXCEPT !.pc = "pr_commission", !.rcAt = now,
                                    !.rcElig = now + CommissionDelay]]
    /\ OnlyTransactions /\ Writes

\* lines 868-878
processReferral_commission(r) ==
    /\ req[r].pc = "pr_commission"
    /\ \E ok \in WriteOutcomes :
        LET q == Noted(req[r], "commission", ok)
        IN  /\ Spend(ok)
            /\ referral_commissions' =
                   IF ok
                   THEN Append(referral_commissions,
                          [referrer_id |-> q.referrer, referred_id |-> q.user,
                           source_reward_id |-> "signup_referral",
                           commission_amount |-> SignupCommission,
                           status |-> "pending", eligible_at |-> q.rcElig,
                           created_at |-> q.rcAt])
                   ELSE referral_commissions
            /\ req' = [req EXCEPT ![r] = CallMetric(q, "referral", q.reward, "reply")]
    /\ OnlyCommissions /\ Writes

\* The caller's request { action: "process_referral", referralCode }.
RequestReferral(r, u, referralCode, ip) ==
    handler(r, [IdleReq EXCEPT !.user = u, !.action = "process_referral",
                               !.refcode = referralCode, !.ip = ip])

\* completeTask, lines 926-932: the referral tasks need their count of referrals
completeTask_referrals(r) ==
    /\ req[r].pc = "ct_referrals"
    /\ LET q == req[r]
           referralCount ==
               Cardinality({i \in 1..Len(referral_history) :
                               referral_history[i].referrer_id = q.user})
           requiredCount == IF q.task = "task_refer_1" THEN 1
                            ELSE IF q.task = "task_refer_5" THEN 5 ELSE 25
       IN  req' = [req EXCEPT ![r] =
                      IF referralCount < requiredCount
                      THEN Reply(q, 400, "Need more referrals to claim")
                      ELSE IF tasks[q.task].category = "milestone"
                              /\ MilestoneLocked(q.task, q.prof)
                      THEN Reply(q, 400, "Milestone not reached")
                      ELSE [q EXCEPT !.pc = "ct_insert", !.reward = tasks[q.task].reward_amount,
                                     !.xp = tasks[q.task].xp_reward]]
    /\ Reads

\* a check that lets every caller through
verifyAnyone(u) == TRUE

\* verifyAdmin, lines 354-358: the role stored in the caller's profile
verifyAdmin(u) == user_profiles[u].role = "admin"

\* ------------------------------------------------------------ administration
\* adminDisableCodeWindow, lines 459-461, with verifyAdmin, lines 355-357
adminDisableCodeWindow_verify(r) ==
    /\ req[r].pc = "ad_verify"
    /\ LET q == req[r]
       IN  req' = [req EXCEPT ![r] =
                      IF ~verifyAdmin(q.user)
                      THEN Reply(q, 403, "Admin access required")
                      ELSE IF q.wid = "none" THEN Reply(q, 400, "Missing windowId")
                      ELSE [q EXCEPT !.pc = "ad_update"]]
    /\ Reads

\* lines 466-470: .update({ is_active: 0 }).eq("id", windowId)
adminDisableCodeWindow_update(r) ==
    /\ req[r].pc = "ad_update"
    /\ \E ok \in WriteOutcomes :
        LET q == Noted(req[r], "disable", ok)
        IN  /\ Spend(ok)
            /\ task_code_windows' =
                   IF ok /\ q.wid \in DOMAIN task_code_windows
                   THEN [task_code_windows EXCEPT ![q.wid].is_active = FALSE]
                   ELSE task_code_windows
            /\ req' = [req EXCEPT ![r] =
                          IF ok THEN ReplyOk(q) ELSE Reply(q, 400, "Failed to disable window")]
    /\ OnlyWindows /\ Writes

\* The administrator's request { action: "admin_disable_code_window", windowId }.
RequestDisable(r, u, windowId) ==
    handler(r, [IdleReq EXCEPT !.user = u, !.action = "admin_disable_code_window",
                               !.wid = windowId])

\* adminResolveFlag, lines 1349-1354; a flag's id is its place in the table
adminResolveFlag_verify(r) ==
    /\ req[r].pc = "af_verify"
    /\ LET q == req[r]
       IN  req' = [req EXCEPT ![r] =
                      IF ~verifyAdmin(q.user) THEN Reply(q, 403, "Admin access required")
                      ELSE IF q.fid = 0 THEN Reply(q, 400, "Missing flagId")
                      ELSE [q EXCEPT !.pc = "af_update"]]
    /\ Reads

\* lines 1356-1364
adminResolveFlag_update(r) ==
    /\ req[r].pc = "af_update"
    /\ \E ok \in WriteOutcomes :
        LET q == Noted(req[r], "resolve", ok)
        IN  /\ Spend(ok)
            /\ abuse_flags' =
                   IF ok /\ q.fid \in 1..Len(abuse_flags)
                   THEN [abuse_flags EXCEPT ![q.fid].resolved = TRUE]
                   ELSE abuse_flags
            /\ req' = [req EXCEPT ![r] =
                          IF ok THEN ReplyOk(q) ELSE Reply(q, 400, "Failed to resolve flag")]
    /\ OnlyFlags /\ Writes

\* The administrator's request { action: "admin_resolve_flag", flagId }.
RequestResolve(r, u, flagId) ==
    handler(r, [IdleReq EXCEPT !.user = u, !.action = "admin_resolve_flag", !.fid = flagId])

\* adminGenerateCodeWindow, lines 363-373
adminGenerateCodeWindow_verify(r) ==
    /\ req[r].pc = "ag_verify"
    /\ LET q == req[r]
       IN  req' = [req EXCEPT ![r] =
                      IF ~verifyAdmin(q.user) THEN Reply(q, 403, "Admin access required")
                      ELSE IF q.task # "none" /\ q.task \notin TaskIds
                      THEN Reply(q, 400, "Task not found")
                      ELSE [q EXCEPT !.pc = "ag_windows"]]
    /\ Reads

\* lines 376-388: at most 4 active windows of a task created on one day
adminGenerateCodeWindow_windows(r) ==
    /\ req[r].pc = "ag_windows"
    /\ LET q == req[r]
           todayWindows ==
               {w \in DOMAIN task_code_windows :
                   /\ task_code_windows[w].is_active
                   /\ DateOf(task_code_windows[w].valid_from) = DateOf(now)
                   /\ (q.task = "none" \/ task_code_windows[w].task_id = q.task)}
       IN  req' = [req EXCEPT ![r] =
                      IF q.task # "none" /\ Cardinality(todayWindows) >= 4
                      THEN Reply(q, 400, "Maximum 4 code windows per task per day")
                      ELSE [q EXCEPT !.pc = "ag_insert", !.at = now]]
    /\ Reads

\* the ids of the windows made, in the order they are made
NewWindowIds == <<"w2", "w3", "w4", "w5">>
FreeWindowIds == {i \in 1..Len(NewWindowIds) : NewWindowIds[i] \notin DOMAIN task_code_windows}

\* lines 390-409: the window starts at its creation and lasts validHours (3);
\* the code is random and is no code a caller of this model sends
adminGenerateCodeWindow_insert(r) ==
    /\ req[r].pc = "ag_insert"
    /\ FreeWindowIds # {}
    /\ \E ok \in WriteOutcomes :
        LET q == Noted(req[r], "window", ok)
            windowId == NewWindowIds[CHOOSE i \in FreeWindowIds :
                                         \A j \in FreeWindowIds : i <= j]
            row == [id |-> windowId,
                    task_id |-> IF q.task = "none" THEN "general" ELSE q.task,
                    code |-> "RANDOM88", valid_from |-> q.at, valid_until |-> q.at + 180,
                    max_redemptions |-> 0, current_redemptions |-> 0, is_active |-> TRUE]
        IN  /\ Spend(ok)
            /\ task_code_windows' =
                   IF ok
                   THEN [w \in DOMAIN task_code_windows \cup {windowId} |->
                            IF w = windowId THEN row ELSE task_code_windows[w]]
                   ELSE task_code_windows
            /\ req' = [req EXCEPT ![r] =
                          IF ok THEN ReplyOk(q)
                          ELSE Reply(q, 400, "Failed to generate code window")]
    /\ OnlyWindows /\ Writes

\* The administrator's request { action: "admin_generate_code_window", taskId }.
RequestGenerate(r, u, taskId) ==
    handler(r, [IdleReq EXCEPT !.user = u, !.action = "admin_generate_code_window",
                               !.task = taskId])

\* adminListCodeWindows (lines 417-455), adminGetMetrics (1314-1334) and
\* adminGetAbuseFlags (1337-1345): the role check, then reads only
adminRead_verify(r) ==
    /\ req[r].pc \in {"al_verify", "am_verify", "aa_verify"}
    /\ LET q == req[r]
       IN  req' = [req EXCEPT ![r] =
                      IF ~verifyAdmin(q.user) THEN Reply(q, 403, "Admin access required")
                      ELSE [q EXCEPT !.pc = "ad_read"]]
    /\ Reads

adminRead_list(r) ==
    /\ req[r].pc = "ad_read"
    /\ req' = [req EXCEPT ![r] = ReplyOk(req[r])]
    /\ Reads

\* The administrator's reading requests.
RequestAdminRead(r, u, action) ==
    handler(r, [IdleReq EXCEPT !.user = u, !.action = action])

\* checkAbuseThrottling, lines 150-206, as one function of the store: what the
\* scorer returns to its caller for actor u at address ip at time t
checkAbuseThrottling(u, ip, t) ==
    LET flags == Limit(Rows(abuse_flags, LAMBDA f : f.user_id = u /\ ~f.resolved), 10)
        high == {i \in 1..Len(flags) : abuse_flags[flags[i]].severity \in {"high", "critical"}}
        recentCount ==
            Cardinality({i \in Newest(RedemptionsOf(u), 20) :
                            redemptions[i].redeemed_at > t - VelocityWindow})
        uniqueUsersFromIP ==
            {redemptions[i].user_id :
                i \in {j \in Newest(RedemptionsFrom(ip), 50) :
                          redemptions[j].redeemed_at > t - IpClusterWindow}}
    IN  IF high # {}
        THEN [allowed |-> FALSE, multiplier |-> 0]
        ELSE [allowed |-> TRUE,
              multiplier |-> abuseMultiplier(recentCount, Cardinality(uniqueUsersFromIP),
                                             Len(flags))]

\* ---------------------------------------------------------- daily check-in
\* dailyCheckin, lines 1009-1012: a check-in the day after the last one
\* continues the streak, any other starts it again
newStreakAlways(profile, today) == profile.daily_streak + 1

\* (a profile that never checked in has no last_login, here -1)
newStreak(profile, today) ==
    IF profile.last_login # -1 /\ profile.last_login = today - 1
    THEN profile.daily_streak + 1
    ELSE 1

\* line 1014, in halves: Math.min(1 + (newStreak - 1) * 0.5, 5)
checkinMultiplier(streak) == Min(2 + (streak - 1), 2 * CheckinCap)

\* line 1016: Math.round(baseReward * multiplier)
checkinReward(streak) == Round(CheckinBase * checkinMultiplier(streak), 2)

\* lines 996-1017
dailyCheckin_profile(r) ==
    /\ req[r].pc = "dc_profile"
    /\ LET q == req[r]
           profile == user_profiles[q.user]
           today == DateOf(now)
           streak == newStreak(profile, today)
       IN  req' = [req EXCEPT ![r] =
                      IF profile.last_login = today
                      THEN Reply(q, 400, "Already checked in today")
                      ELSE [q EXCEPT !.pc = "dc_credit", !.prof = profile, !.at = now,
                                     !.streak = streak,
                                     !.reward = checkinReward(streak),
                                     !.xp = CheckinXp + streak]]
    /\ Reads

\* lines 1020-1026
dailyCheckin_credit(r) ==
    /\ req[r].pc = "dc_credit"
    /\ \E ok \in WriteOutcomes :
        LET q == Noted(req[r], "profile", ok)
        IN  /\ Spend(ok)
            /\ user_profiles' =
                   IF ok
                   THEN [user_profiles EXCEPT ![q.user] =
                            [@ EXCEPT !.balance = q.prof.balance + q.reward,
                                      !.total_earned = q.prof.total_earned + q.reward,
                                      !.last_login = DateOf(q.at),
                                      !.daily_streak = q.streak,
                                      !.xp = q.prof.xp + q.xp]]
                   ELSE user_profiles
            /\ req' = [req EXCEPT ![r] = [q EXCEPT !.pc = "dc_tx"]]
    /\ OnlyProfiles /\ Writes

\* lines 1028-1034
dailyCheckin_transaction(r) ==
    /\ req[r].pc = "dc_tx"
    /\ \E ok \in WriteOutcomes :
        LET q == Noted(req[r], "transaction", ok)
        IN  /\ Spend(ok)
            /\ transactions' = IF ok
                               THEN Append(transactions, Transaction(q.user, q.reward, "daily"))
                               ELSE transactions
            /\ req' = [req EXCEPT ![r] = [q EXCEPT !.pc = "dc_metrics"]]
    /\ OnlyTransactions /\ Writes

\* lines 1037-1039: the day's metrics row, the day being the one computed at
\* the start of the check-in
dailyCheckin_metrics(r) ==
    /\ req[r].pc = "dc_metrics"
    /\ LET q == req[r]
       IN  req' = [req EXCEPT ![r] =
                      [q EXCEPT !.pc = "dc_active", !.metDay = DateOf(q.at),
                                !.metRow = platform_metrics[DateOf(q.at)]]]
    /\ Reads

\* lines 1041-1047: one more active user on the row read, then the reward is
\* tracked
dailyCheckin_active(r) ==
    /\ req[r].pc = "dc_active"
    /\ \E ok \in WriteOutcomes :
        LET q == req[r]
            m == q.metRow
        IN  /\ Spend(IF m.exists THEN ok ELSE TRUE)
            /\ platform_metrics' =
                   IF ok /\ m.exists
                   THEN [platform_metrics EXCEPT
                            ![q.metDay].active_users_today = m.active_users_today + 1]
                   ELSE platform_metrics
            /\ req' = [req EXCEPT ![r] =
                          CallMetric(IF m.exists THEN Noted(q, "active", ok) ELSE q,
                                     "daily", q.reward, "reply")]
    /\ OnlyMetrics /\ Writes

\* The caller's request { action: "daily_checkin" }.
RequestCheckin(r, u) ==
    handler(r, [IdleReq EXCEPT !.user = u, !.action = "daily_checkin"])

\* ---------------------------------------------------------- specifications
\* Concurrent redemptions of one code window.
InitRedeem == InitWith(FreshProfiles, OneWindow, <<>>, <<>>, <<>>, <<>>, <<>>, 0)

NextRedeem ==
    \/ /\ issued < MaxRequests
       /\ \E r \in Slots, u \in {"u1"}, c \in {"goodcode", "BADCODE9"} :
              RequestRedeem(r, u, "redeem_task_code", c, "ip1")
    \/ \E r \in Slots :
        \/ autoProcessPending_rewards(r)
        \/ autoProcessPending_commissions(r)
        \/ redeemTaskCode_find(r)
        \/ redeemTaskCode_duplicate(r)
        \/ checkAbuseThrottling_flags(r)
        \/ checkAbuseThrottling_velocity(r)
        \/ checkAbuseThrottling_cluster(r)
        \/ redeemTaskCode_profile(r)
        \/ redeemTaskCode_insert(r)
        \/ redeemTaskCode_window(r)
        \/ redeemTaskCode_credit(r)
        \/ redeemTaskCode_transaction(r)
        \/ redeemTaskCode_log(r)
        \/ trackMetric_read(r)
        \/ trackMetric_write(r)
        \/ processReferralCommission_profile(r)

SpecRedeem == InitRedeem /\ [][NextRedeem]_vars


\* Concurrent balance-changing requests of one actor.
InitLedger == InitWith(FreshProfiles, OneWindow, <<>>, <<>>, <<>>, <<>>, <<>>, 0)

NextLedger ==
    \/ /\ issued < MaxRequests
       /\ \E r \in Slots, t \in TaskIds : RequestTask(r, "u1", t)
    \/ /\ issued < MaxRequests
       /\ \E r \in Slots : RequestGame(r, "u1", "coinflip", 10)
    \/ \E r \in Slots :
        \/ autoProcessPending_rewards(r)
        \/ autoProcessPending_commissions(r)
        \/ completeTask_task(r)
        \/ completeTask_profile(r)
        \/ completeTask_completions(r)
        \/ completeTask_insert(r)
        \/ completeTask_credit(r)
        \/ completeTask_transaction(r)
        \/ completeTask_log(r)
        \/ gameResult_profile(r)
        \/ gameResult_credit(r)
        \/ gameResult_transaction(r)
        \/ trackMetric_read(r)
        \/ trackMetric_write(r)
        \/ processReferralCommission_profile(r)

SpecLedger == InitLedger /\ [][NextLedger]_vars

\* Deferred rewards: u2 was referred by u1 and has completed one task; u1 has
\* a pending reward and the signup commission of the referral, both not yet due.
ReferredProfiles ==
    [u \in Users |-> IF u = "u2" THEN [NewProfile EXCEPT !.referred_by = "u1"] ELSE NewProfile]

InitSweep ==
    InitWith(ReferredProfiles, OneWindow, <<>>,
             <<[user_id |-> "u1", reward_amount |-> 40, status |-> "pending",
                process_at |-> Day]>>,
             <<[referrer_id |-> "u1", referred_id |-> "u2",
                source_reward_id |-> "signup_referral", commission_amount |-> 100,
                status |-> "pending", eligible_at |-> CommissionDelay, created_at |-> 0]>>,
             <<>>,
             <<[user_id |-> "u2", task_id |-> "task_once", status |-> "completed",
                completed_at |-> 0]>>,
             0)

NextSweep ==
    \/ Advance(Day)
    \/ /\ issued < MaxRequests
       /\ \E r \in Slots : RequestPending(r, "u1")
    \/ /\ issued < MaxRequests
       /\ \E r \in Slots : RequestTask(r, "u2", "task_daily")
    \/ \E r \in Slots :
        \/ autoProcessPending_rewards(r)
        \/ processReward_read(r)
        \/ processReward_credit(r)
        \/ processReward_mark(r)
        \/ processReward_transaction(r)
        \/ processReward_log(r)
        \/ autoProcessPending_commissions(r)
        \/ processCommission_read(r)
        \/ processCommission_credit(r)
        \/ processCommission_mark(r)
        \/ processCommission_transaction(r)
        \/ getPendingRewards(r)
        \/ completeTask_task(r)
        \/ completeTask_profile(r)
        \/ completeTask_completions(r)
        \/ completeTask_insert(r)
        \/ completeTask_credit(r)
        \/ completeTask_transaction(r)
        \/ completeTask_log(r)
        \/ trackMetric_read(r)
        \/ trackMetric_write(r)
        \/ processReferralCommission_profile(r)
        \/ processReferralCommission_tasks(r)
        \/ processReferralCommission_redemptions(r)
        \/ processReferralCommission_referrerIps(r)
        \/ processReferralCommission_ownIps(r)
        \/ processReferralCommission_insert(r)

SpecSweep == InitSweep /\ [][NextSweep]_vars

\* the questions a client shows next: the first one of the bank not yet answered
QuestionOrder ==
    <<"e1", "e2", "e3", "e4", "e5",
      "h1", "h2", "h3", "h4", "h5", "h6", "h7", "h8", "h9", "h10">>

NextQuestions(session) ==
    LET open == {i \in 1..Len(QuestionOrder) :
                    /\ QuestionOrder[i] \in session.question_ids
                    /\ QuestionOrder[i] \notin session.answered_ids}
    IN  IF open = {} THEN {}
        ELSE {QuestionOrder[CHOOSE i \in open : \A j \in open : i <= j]}

Quiet == \A s \in Slots : ~InFlight(s)

\* a session of the questions of `pool` as one-at-a-time play leaves it after
\* `answered` answers in the client's order, `score` of them correct
PlayedSession(pool, answered, score) ==
    LET order == SelectSeq(QuestionOrder, LAMBDA id : id \in pool)
    IN  [NoSession EXCEPT !.id = 1, !.user_id = "u1", !.question_ids = pool,
                          !.answered_ids = {order[i] : i \in 1..answered},
                          !.score = score,
                          !.total_earned = score * quizzes[order[1]].reward_amount,
                          !.status = "active", !.started_at = 0]

\* One actor's quiz requests, one at a time: a request begins when the one
\* before it has answered.  The actor has no session yet, or one that is
\* under way.
InitQuiz ==
    \/ InitWith(FreshProfiles, OneWindow, <<>>, <<>>, <<>>, <<>>, <<>>, 0)
    \/ \E pool \in {EasyPool, HardPool} :
           \E answered \in 0..Cardinality(pool) :
               \E score \in 0..answered :
                   InitWith(FreshProfiles, OneWindow,
                            <<PlayedSession(pool, answered, score)>>,
                            <<>>, <<>>, <<>>, <<>>, 0)

NextQuiz ==
    \/ /\ now = 0
       /\ Quiet
       /\ Advance(StaleMinutes + 1)
    \/ /\ issued < MaxQuizRequests
       /\ Quiet
       /\ \E r \in Slots, c \in {5, 7, 10, 20}, d \in {"easy", "hard"} :
              /\ d = "hard" <=> c = 10
              /\ RequestStart(r, "u1", c, d)
    \/ /\ issued < MaxQuizRequests
       /\ Quiet
       /\ \E r \in Slots, sid \in 1..Len(quiz_sessions), opt \in {1, 2} :
              \E qid \in NextQuestions(quiz_sessions[sid]) \cup {"e1"} :
                  RequestAnswer(r, "u1", sid, qid, opt)
    \/ /\ issued < MaxQuizRequests
       /\ Quiet
       /\ \E r \in Slots, sid \in 1..Len(quiz_sessions) : RequestFinish(r, "u1", sid)
    \/ \E r \in Slots :
        \/ autoProcessPending_rewards(r)
        \/ autoProcessPending_commissions(r)
        \/ startQuiz_active(r)
        \/ startQuiz_expire(r)
        \/ startQuiz_questions(r)
        \/ startQuiz_mixed(r)
        \/ startQuiz_insert(r)
        \/ quizAnswer_session(r)
        \/ quizAnswer_question(r)
        \/ quizAnswer_update(r)
        \/ finishQuiz_session(r)
        \/ finishQuiz_complete(r)
        \/ finishQuiz_profile(r)
        \/ finishQuiz_credit(r)
        \/ finishQuiz_transaction(r)
        \/ finishQuiz_log(r)
        \/ trackMetric_read(r)
        \/ trackMetric_write(r)
        \/ processReferralCommission_profile(r)

SpecQuiz == InitQuiz /\ [][NextQuiz]_vars

\* Concurrent quiz requests of one actor, whose session of five questions has
\* three answered.
OpenSession == PlayedSession(EasyPool, 3, 3)

InitQuizRace ==
    InitWith(FreshProfiles, OneWindow, <<OpenSession>>, <<>>, <<>>, <<>>, <<>>, 0)

NextQuizRace ==
    \/ /\ now = 0
       /\ Advance(StaleMinutes + 1)
    \/ /\ issued < MaxRaceRequests
       /\ \E r \in Slots : RequestStart(r, "u1", 5, "easy")
    \/ /\ issued < MaxRaceRequests
       /\ \E r \in Slots, qid \in {"e4", "e5"} : RequestAnswer(r, "u1", 1, qid, 1)
    \/ /\ issued < MaxRaceRequests
       /\ \E r \in Slots : RequestFinish(r, "u1", 1)
    \/ \E r \in Slots :
        \/ autoProcessPending_rewards(r)
        \/ autoProcessPending_commissions(r)
        \/ startQuiz_active(r)
        \/ startQuiz_expire(r)
        \/ startQuiz_questions(r)
        \/ startQuiz_insert(r)
        \/ quizAnswer_session(r)
        \/ quizAnswer_question(r)
        \/ quizAnswer_update(r)
        \/ finishQuiz_session(r)
        \/ finishQuiz_complete(r)
        \/ finishQuiz_profile(r)
        \/ finishQuiz_credit(r)
        \/ finishQuiz_transaction(r)
        \/ finishQuiz_log(r)
        \/ trackMetric_read(r)
        \/ trackMetric_write(r)
        \/ processReferralCommission_profile(r)

SpecQuizRace == InitQuizRace /\ [][NextQuizRace]_vars

\* Store failures: requests one at a time, of which the store may fail MaxFaults
\* operations.  u1 holds a session with every question answered.
AnsweredSession == PlayedSession(EasyPool, 5, 4)

InitFault ==
    InitWith(FreshProfiles, OneWindow, <<AnsweredSession>>, <<>>, <<>>, <<>>, <<>>, MaxFaults)

NextFault ==
    \/ /\ issued < MaxRequests
       /\ Quiet
       /\ \E r \in Slots, t \in TaskIds : RequestTask(r, "u1", t)
    \/ /\ issued < MaxRequests
       /\ Quiet
       /\ \E r \in Slots : RequestRedeem(r, "u1", "redeem_task_code", "goodcode", "ip1")
    \/ /\ issued < MaxRequests
       /\ Quiet
       /\ \E r \in Slots : RequestFinish(r, "u1", 1)
    \/ /\ issued < MaxRequests
       /\ Quiet
       /\ \E r \in Slots, c \in RefCodes, ip \in IPs : RequestReferral(r, "u2", c, ip)
    \/ \E r \in Slots :
        \/ autoProcessPending_rewards(r)
        \/ autoProcessPending_commissions(r)
        \/ completeTask_task(r)
        \/ completeTask_profile(r)
        \/ completeTask_completions(r)
        \/ completeTask_insert(r)
        \/ completeTask_credit(r)
        \/ completeTask_transaction(r)
        \/ completeTask_log(r)
        \/ redeemTaskCode_find(r)
        \/ redeemTaskCode_duplicate(r)
        \/ checkAbuseThrottling_flags(r)
        \/ checkAbuseThrottling_velocity(r)
        \/ checkAbuseThrottling_cluster(r)
        \/ redeemTaskCode_profile(r)
        \/ redeemTaskCode_insert(r)
        \/ redeemTaskCode_window(r)
        \/ redeemTaskCode_credit(r)
        \/ redeemTaskCode_transaction(r)
        \/ redeemTaskCode_log(r)
        \/ finishQuiz_session(r)
        \/ finishQuiz_complete(r)
        \/ finishQuiz_profile(r)
        \/ finishQuiz_credit(r)
        \/ finishQuiz_transaction(r)
        \/ finishQuiz_log(r)
        \/ processReferral_referrer(r)
        \/ processReferral_profile(r)
        \/ processReferral_history(r)
        \/ processReferral_ips(r)
        \/ processReferral_flag(r)
        \/ processReferral_recent(r)
        \/ processReferral_insert(r)
        \/ processReferral_credit(r)
        \/ processReferral_transaction(r)
        \/ processReferral_commission(r)
        \/ trackMetric_read(r)
        \/ trackMetric_write(r)
        \/ processReferralCommission_profile(r)

SpecFault == InitFault /\ [][NextFault]_vars


\* ------------------------------------------------------------------ claims
\* C1: for any actor and code window, under any interleaving of that actor's
\* redeem requests, at most one Redemption row exists for the pair and the
\* reward is credited to the balance at most once.
RedeemedAtMostOnce ==
    \A u \in Users, w \in WindowIds :
        /\ Cardinality({i \in 1..Len(redemptions) :
                           redemptions[i].user_id = u /\ redemptions[i].window_id = w}) <= 1
        /\ Cardinality({i \in 1..Len(transactions) :
                           /\ transactions[i].user_id = u
                           /\ transactions[i].type = "code_redemption"}) <= 1
        /\ user_profiles[u].balance <= InitBalance + DefaultCodeReward

\* the successful responses still held in the slots
Succeeded == {r \in Slots : req[r].pc = "done" /\ req[r].resp.status = 200}

RECURSIVE Reported(_)
Reported(S) ==
    IF S = {} THEN 0
    ELSE LET r == CHOOSE x \in S : TRUE IN req[r].resp.reward + Reported(S \ {r})

\* C2: when the balance-changing requests of an actor have all answered
\* success, also after running concurrently, the balance is the initial balance
\* plus the sum of the changes they reported.
NoLostUpdate ==
    (/\ \A r \in Slots : req[r].pc = "done" /\ req[r].resp.status = 200 /\ req[r].user = "u1"
     /\ issued = Cardinality(Slots))
        => user_profiles["u1"].balance = InitBalance + Reported(Succeeded)

\* C3: no step of any request lowers an actor's stored totalEarned.
TotalEarnedNeverDecreases ==
    [][\A u \in Users : user_profiles'[u].total_earned >= user_profiles[u].total_earned]_vars


Processed(t) == {i \in 1..Len(t) : t[i].status = "processed"}

\* C4: every commission row is credited to its referrer once: the referrer
\* gets no more commission transactions than rows have become processed, and
\* once its requests have ended its balance holds each settled amount once.
CommissionCreditedOnce ==
    /\ \A u \in Users :
        Cardinality({i \in 1..Len(transactions) :
                        /\ transactions[i].user_id = u
                        /\ transactions[i].type = "referral_commission"})
            <= Cardinality({i \in Processed(referral_commissions) :
                               referral_commissions[i].referrer_id = u})
    /\ (\A r \in Slots : ~InFlight(r)) =>
           user_profiles["u1"].balance <=
               InitBalance
               + SumSeq([i \in 1..Len(referral_commissions) |->
                            IF referral_commissions[i].status = "processed"
                            THEN referral_commissions[i].commission_amount ELSE 0])
               + SumSeq([i \in 1..Len(pending_rewards) |->
                            IF pending_rewards[i].status = "processed"
                            THEN pending_rewards[i].reward_amount ELSE 0])

\* C5: a pending reward or a commission is credited and marked processed only
\* once the clock has reached its maturity time, which for a commission is 24
\* hours after its creation, and only by a request of the actor that owns it.
SettledOnlyWhenMatured ==
    /\ \A i \in 1..Len(referral_commissions) :
        /\ referral_commissions[i].eligible_at = referral_commissions[i].created_at + 1440
        /\ referral_commissions[i].status = "processed" => referral_commissions[i].eligible_at <= now
    /\ \A i \in Processed(pending_rewards) : pending_rewards[i].process_at <= now
    /\ \A r \in Slots :
        /\ req[r].pc \in {"rw_read", "rw_credit", "rw_mark", "rw_tx", "rw_log"} =>
               /\ pending_rewards[req[r].cur].process_at <= now
               /\ pending_rewards[req[r].cur].user_id = req[r].user
        /\ req[r].pc \in {"cm_read", "cm_credit", "cm_mark", "cm_tx"} =>
               /\ referral_commissions[req[r].cur].eligible_at <= now
               /\ referral_commissions[req[r].cur].referrer_id = req[r].user

\* C5 witness: a commission created during the run and a pending reward have both been settled.
SettledWitness ==
    /\ \E i \in Processed(referral_commissions) : referral_commissions[i].created_at > 0
    /\ Processed(pending_rewards) # {}
    /\ user_profiles["u1"].balance > InitBalance

\* the state rows of each action's mutation unit, as the requests record them
StateRows(action) ==
    CASE action = "complete_task" -> {"user_task"}
      [] action = "redeem_task_code" -> {"redemption", "window"}
      [] action = "finish_quiz" -> {"session"}
      [] action = "process_referral" -> {"history"}
      [] OTHER -> {}

Rewarding == {"complete_task", "redeem_task_code", "finish_quiz", "process_referral"}

\* C6: when a request of complete_task, redeem_task_code, finish_quiz or
\* process_referral has answered, whichever store write failed on the way, its
\* writes are all there or none is: the state rows of its unit (UserTask,
\* Redemption and window counter, completed QuizSession, referral history) are
\* stored exactly when the balance credit is.
UnitAllOrNothing ==
    \A r \in Slots :
        (/\ req[r].pc = "done"
         /\ req[r].action \in Rewarding
         /\ "profile_read" \notin req[r].failed) =>
            \/ /\ req[r].wrote \cap StateRows(req[r].action) = {}
               /\ "profile" \notin req[r].wrote
            \/ /\ StateRows(req[r].action) \subseteq req[r].wrote
               /\ "profile" \in req[r].wrote

\* C7: a success response of complete_task, redeem_task_code, finish_quiz or
\* process_referral that reports a reward is given only when the profile was
\* credited and the Transaction row appended, and no profile read, profile
\* update or log insert of the request failed or was skipped.
SuccessMeansCredited ==
    \A r \in Slots :
        (/\ req[r].pc = "done"
         /\ req[r].action \in Rewarding
         /\ req[r].resp.status = 200
         /\ req[r].resp.reward > 0) =>
            /\ {"profile", "transaction"} \subseteq req[r].wrote
            /\ req[r].failed \cap {"profile", "profile_read", "log"} = {}

\* C8: every actor has at most one QuizSession with status active, whatever
\* the interleaving of its start_quiz requests.
OneActiveSession == \A u \in Users : Len(ActiveSessions(u)) <= 1

\* C9: a step takes a QuizSession from active to completed only when all its
\* questions are answered in the state the step is taken in; and finish_quiz on
\* a session with fewer answers than questions answers with an error and leaves
\* the store unchanged.
CompletedOnlyWhenAnswered ==
    [][/\ \A i \in 1..Len(quiz_sessions) :
              (quiz_sessions[i].status = "active" /\ quiz_sessions'[i].status = "completed")
                  => Cardinality(quiz_sessions[i].answered_ids)
                         = Cardinality(quiz_sessions[i].question_ids)
       /\ \A r \in Slots :
              (/\ req[r].pc = "fq_session"
               /\ req'[r].pc # "fq_session"
               /\ FoundSession(req[r].sid, req[r].user)
               /\ Unanswered(quiz_sessions[req[r].sid]))
                  => /\ req'[r].pc = "done"
                     /\ req'[r].resp.status = 400
                     /\ UNCHANGED tables]_vars

Finishing == {"fq_complete", "fq_profile", "fq_credit", "fq_tx", "fq_log"}

\* C10: a finish_quiz that passed its checks holds bonusReward = round(half of
\* the session's total) when the score equals the number of questions and 0
\* otherwise, holds totalReward = session total + bonusReward, and credits the
\* profile it read with totalReward; ten correct answers of 20 give 200 + 100 = 300.
PerfectScoreBonus ==
    \A r \in Slots :
        LET q == req[r]
            earned == q.sess.total_earned
            count == Cardinality(q.sess.question_ids)
        IN  q.pc \in Finishing =>
                /\ IF q.sess.score = count
                   THEN 2 * q.bonus - earned \in {0, 1}
                   ELSE q.bonus = 0
                /\ q.reward = earned + q.bonus
                /\ (q.sess.score = 10 /\ count = 10 /\ earned = 200) =>
                       (q.bonus = 100 /\ q.reward = 300)
                /\ (q.pc = "fq_tx" /\ "profile" \in q.wrote) =>
                       /\ user_profiles[q.user].balance = q.prof.balance + q.reward
                       /\ user_profiles[q.user].total_earned = q.prof.total_earned + q.reward

\* C10 witness: a perfect session of five questions worth 5 each is being
\* settled: 25 earned, a bonus of 13, 38 credited.
PerfectScoreWitness ==
    \E r \in Slots :
        /\ req[r].pc = "fq_tx"
        /\ "profile" \in req[r].wrote
        /\ req[r].sess.score = 5
        /\ req[r].sess.total_earned = 25
        /\ req[r].bonus = 13
        /\ user_profiles[req[r].user].balance = InitBalance + 38

\* ------------------------------------------------------ code windows
\* The window as generated with maxRedemptions = m (0: no cap).
CappedWindow(m) == [w \in WindowIds |-> [OneWindow[w] EXCEPT !.max_redemptions = m]]

AdminProfiles == [FreshProfiles EXCEPT !["u2"].role = "admin"]

InitWindow ==
    \E m \in {0, 1} :
        InitWith(AdminProfiles, CappedWindow(m), <<>>, <<>>, <<>>, <<>>, <<>>, 0)

NextWindow ==
    \/ /\ issued < MaxRequests
       /\ \E r \in Slots, u \in Users :
              RequestRedeem(r, u, "redeem_task_code", "goodcode", "ip1")
    \/ /\ issued < MaxRequests
       /\ \E r \in Slots, u \in Users : RequestDisable(r, u, "w1")
    \/ Advance(Day)
    \/ \E r \in Slots :
        \/ autoProcessPending_rewards(r)
        \/ autoProcessPending_commissions(r)
        \/ adminDisableCodeWindow_verify(r)
        \/ adminDisableCodeWindow_update(r)
        \/ redeemTaskCode_find(r)
        \/ redeemTaskCode_duplicate(r)
        \/ checkAbuseThrottling_flags(r)
        \/ checkAbuseThrottling_velocity(r)
        \/ checkAbuseThrottling_cluster(r)
        \/ redeemTaskCode_profile(r)
        \/ redeemTaskCode_insert(r)
        \/ redeemTaskCode_window(r)
        \/ redeemTaskCode_credit(r)
        \/ redeemTaskCode_transaction(r)
        \/ redeemTaskCode_log(r)
        \/ trackMetric_read(r)
        \/ trackMetric_write(r)
        \/ processReferralCommission_profile(r)

SpecWindow == InitWindow /\ [][NextWindow]_vars

WindowRows(w) == Rows(redemptions, LAMBDA row : row.window_id = w)

\* C11: a window with max_redemptions = m never has more than m Redemption
\* rows, whatever the interleaving of redeems by distinct actors.
CapNeverExceeded ==
    \A w \in WindowIds :
        task_code_windows[w].max_redemptions # 0 =>
            Len(WindowRows(w)) <= task_code_windows[w].max_redemptions

RedeemStages ==
    {"rd_duplicate", "ab_flags", "ab_velocity", "ab_cluster", "ab_flag", "rd_task", "rd_profile",
     "rd_insert", "rd_window", "rd_credit", "rd_tx", "rd_log"}

Redeeming(r) == req[r].action = "redeem_task_code" /\ req[r].pc \in RedeemStages

Within(w, t) ==
    /\ task_code_windows[w].valid_from <= t
    /\ t <= task_code_windows[w].valid_until

\* the windows a lookup for this code finds redeemable at the present time
Redeemable(code) ==
    {w \in WindowIds : /\ task_code_windows[w].code = CleanCode(code)
                       /\ task_code_windows[w].is_active
                       /\ Within(w, now)}

RedeemedInsideWindow ==
    /\ \A i \in 1..Len(redemptions) :
           Within(redemptions[i].window_id, redemptions[i].redeemed_at)
    /\ \A r \in Slots :
           Redeeming(r) => /\ req[r].win.id \in WindowIds
                           /\ req[r].win.is_active
                           /\ Within(req[r].win.id, req[r].at)
    /\ \A r \in Slots :
           (req[r].action = "redeem_task_code" /\ req[r].pc = "done"
               /\ req[r].resp.status = 200) => "redemption" \in req[r].wrote

RefusedOutsideWindow ==
    \A r \in Slots :
        (req[r].pc = "rd_find" /\ req'[r] # req[r] /\ Redeemable(req[r].code) = {}) =>
            /\ req'[r].pc \in {"done", "rd_flag"}
            /\ req'[r].pc = "done" => req'[r].resp.status = 400
            /\ req'[r].wrote = {}
            /\ tables' = tables

OnlyAdminDisables ==
    \A w \in WindowIds :
        task_code_windows'[w].is_active # task_code_windows[w].is_active =>
            /\ ~task_code_windows'[w].is_active
            /\ \E r \in Slots : /\ req[r].pc = "ad_update"
                                /\ req[r].wid = w
                                /\ user_profiles[req[r].user].role = "admin"
                                /\ req'[r].pc = "done"

PastCompletions(n) ==
    [i \in 1..n |-> [user_id |-> "u1", task_id |-> "task_daily", status |-> "completed",
                     completed_at |-> (i - n - 1) * Day]]

InitDaily ==
    \E n \in {0, 9, 10} :
        InitWith(FreshProfiles, OneWindow, <<>>, <<>>, <<>>, <<>>, PastCompletions(n), 0)

\* one request at a time
NextDaily ==
    \/ /\ issued < MaxRequests
       /\ Quiet
       /\ \E r \in Slots, t \in TaskIds : RequestTask(r, "u1", t)
    \/ Quiet /\ Advance(Day)
    \/ \E r \in Slots :
        \/ autoProcessPending_rewards(r)
        \/ autoProcessPending_commissions(r)
        \/ completeTask_task(r)
        \/ completeTask_profile(r)
        \/ completeTask_completions(r)
        \/ completeTask_insert(r)
        \/ completeTask_credit(r)
        \/ completeTask_transaction(r)
        \/ completeTask_log(r)
        \/ trackMetric_read(r)
        \/ trackMetric_write(r)
        \/ processReferralCommission_profile(r)

SpecDaily == InitDaily /\ [][NextDaily]_vars

\* C13: with one request at a time, a one_time task has at most one UserTask
\* row per user ever, and a daily task at most one per user and UTC date,
\* however many rows the user already has.
CompletedOncePerPeriod ==
    \A i, j \in 1..Len(user_tasks) :
        (/\ i < j
         /\ user_tasks[i].user_id = user_tasks[j].user_id
         /\ user_tasks[i].task_id = user_tasks[j].task_id) =>
            /\ tasks[user_tasks[i].task_id].task_type # "one_time"
            /\ tasks[user_tasks[i].task_id].task_type = "daily" =>
                   DateOf(user_tasks[i].completed_at) # DateOf(user_tasks[j].completed_at)

\* ------------------------------------------------------------ rate limits
InitLimiter == InitWith(FreshProfiles, OneWindow, <<>>, <<>>, <<>>, <<>>, <<>>, 0)

\* one request at a time, of two actions with different limits
NextLimiter ==
    \/ /\ issued < MaxLimiterRequests
       /\ Quiet
       /\ \E r \in Slots : RequestPending(r, "u1")
    \/ /\ issued < MaxLimiterRequests
       /\ Quiet
       /\ \E r \in Slots : RequestAnswer(r, "u1", 1, "e1", 0)
    \/ Quiet /\ now < MaxLimiterNow /\ Advance(RateWindow)
    \/ \E r \in Slots :
        \/ autoProcessPending_rewards(r)
        \/ autoProcessPending_commissions(r)
        \/ getPendingRewards(r)
        \/ quizAnswer_session(r)

SpecLimiter == InitLimiter /\ [][NextLimiter]_vars

LimitOf(action) == IF action = "quiz_answer" THEN QuizAnswerRate ELSE DefaultRate

RateLimited(q) == q.pc = "done" /\ q.resp.status = 429

CountWithinLimit ==
    \A u \in Users, a \in Actions :
        /\ rateLimits[<<u, a>>].count <= LimitOf(a)
        /\ rateLimits[<<u, a>>] # NoEntry => rateLimits[<<u, a>>].count >= 1

\* what one arriving request does to the counter of its key
LimiterStep ==
    issued' = issued + 1 =>
        \A r \in Slots :
            req'[r] # req[r] =>
                LET q == req'[r]
                    key == <<q.user, q.action>>
                    entry == rateLimits[key]
                IN  IF now > entry.resetAt
                    THEN /\ ~RateLimited(q)
                         /\ rateLimits'[key] = [count |-> 1, resetAt |-> now + RateWindow]
                    ELSE IF entry.count < LimitOf(q.action)
                    THEN /\ ~RateLimited(q)
                         /\ rateLimits'[key] = [entry EXCEPT !.count = entry.count + 1]
                    ELSE /\ RateLimited(q)
                         /\ rateLimits' = rateLimits

\* C14: per key, a window starts at the first accepted call with count 1 and
\* lasts 60 seconds; each accepted call in it adds one until the count is the
\* limit (10, or 30 for quiz_answer), every further call in the window is
\* answered 429 and leaves the counter as it is, and the first call after the
\* window is accepted and starts a new window with count 1.
ExactlyMaxPerWindow == []CountWithinLimit /\ [][LimiterStep]_vars

ExactlyMaxPerWindowWitness ==
    /\ RateLimited(req[1]) /\ req[1].action = "quiz_answer"
    /\ rateLimits[<<"u1", "quiz_answer">>].count = QuizAnswerRate
    /\ rateLimits[<<"u1", "get_pending_rewards">>].count = DefaultRate
    /\ now <= rateLimits[<<"u1", "get_pending_rewards">>].resetAt

\* ---------------------------------------------------------------- lockout
\* Two minutes in, u1 has either done nothing yet or has sent seven wrong
\* codes in the first minute, five from one address and two from the other.
InitLockout ==
    \E guessed \in BOOLEAN :
        /\ now = 2 * RateWindow
        /\ user_profiles = AdminProfiles
        /\ task_code_windows = OneWindow
        /\ redemptions = <<>>
        /\ user_tasks = <<>>
        /\ quiz_sessions = <<>>
        /\ pending_rewards = <<>>
        /\ referral_commissions = <<>>
        /\ referral_history = <<>>
        /\ transactions = <<>>
        /\ reward_logs = <<>>
        /\ abuse_flags = <<>>
        /\ platform_metrics = [d \in MetricDays |-> NoMetric]
        /\ rateLimits =
               [k \in (Users \X Actions) \cup ({"code_ip"} \X IPs) |->
                   IF ~guessed THEN NoEntry
                   ELSE IF k = <<"code_ip", "ip1">> THEN [count |-> 5, resetAt |-> RateWindow]
                   ELSE IF k = <<"code_ip", "ip2">> THEN [count |-> 2, resetAt |-> RateWindow]
                   ELSE IF k = <<"u1", "redeem_task_code">>
                        THEN [count |-> 7, resetAt |-> RateWindow]
                   ELSE NoEntry]
        /\ failedAttempts =
               [u \in Users |->
                   IF guessed /\ u = "u1" THEN [count |-> 7, resetAt |-> LockoutWindow]
                   ELSE NoEntry]
        /\ req = [r \in Slots |-> IdleReq]
        /\ issued = 0
        /\ faultsLeft = 0

\* one request at a time: u1 guesses codes from two addresses, redeems the
\* real code, and the administrator u2 disables the window
NextLockout ==
    \/ /\ issued < MaxLockoutRequests
       /\ Quiet
       /\ \E r \in Slots, ip \in IPs :
              RequestRedeem(r, "u1", "redeem_task_code", "BADCODE9", ip)
    \/ /\ issued < MaxLockoutRequests
       /\ Quiet
       /\ \E r \in Slots : RequestRedeem(r, "u1", "redeem_task_code", "goodcode", "ip1")
    \/ /\ issued < MaxLockoutRequests
       /\ Quiet
       /\ \E r \in Slots : RequestRedeem(r, "u1", "verify_reward_code", "BADCODE9", "ip1")
    \/ /\ issued < MaxLockoutRequests
       /\ Quiet
       /\ \E r \in Slots : RequestDisable(r, "u2", "w1")
    \/ Quiet /\ now < MaxLockoutNow /\ Advance(2 * RateWindow)
    \/ Quiet /\ now < LockoutWindow /\ Advance(LockoutWindow)
    \/ \E r \in Slots :
        \/ autoProcessPending_rewards(r)
        \/ autoProcessPending_commissions(r)
        \/ adminDisableCodeWindow_verify(r)
        \/ adminDisableCodeWindow_update(r)
        \/ redeemTaskCode_find(r)
        \/ redeemTaskCode_flag(r)
        \/ redeemTaskCode_duplicate(r)
        \/ checkAbuseThrottling_flags(r)
        \/ checkAbuseThrottling_velocity(r)
        \/ checkAbuseThrottling_cluster(r)
        \/ redeemTaskCode_profile(r)
        \/ redeemTaskCode_insert(r)
        \/ redeemTaskCode_window(r)
        \/ redeemTaskCode_credit(r)
        \/ redeemTaskCode_transaction(r)
        \/ redeemTaskCode_log(r)
        \/ trackMetric_read(r)
        \/ trackMetric_write(r)
        \/ processReferralCommission_profile(r)

SpecLockout == InitLockout /\ [][NextLockout]_vars

Locked(u) ==
    /\ failedAttempts[u].count >= 10
    /\ now <= failedAttempts[u].resetAt

\* a lockout lasts: while the window has not ended, no step takes it away
LockoutHeld ==
    \A u \in Users :
        (Locked(u) /\ now' <= failedAttempts[u].resetAt) =>
            /\ failedAttempts'[u].resetAt = failedAttempts[u].resetAt
            /\ failedAttempts'[u].count >= failedAttempts[u].count

\* what the check of an arriving redeem answers (it is run once the
\* per-address limit has let the request through)
LockoutChecked ==
    issued' = issued + 1 =>
        \A r \in Slots :
            (req'[r] # req[r] /\ req'[r].action = "redeem_task_code"
                /\ req'[r].resp.msg # "Too many code attempts. Wait a minute.") =>
                LET q == req'[r]
                    entry == failedAttempts[q.user]
                IN  IF entry.count >= 10 /\ now <= entry.resetAt
                    THEN q.pc = "done" /\ q.resp.status = 429
                                       /\ q.resp.msg = "Account temporarily locked"
                    ELSE /\ q.resp.msg # "Account temporarily locked"
                         /\ (entry # NoEntry /\ now > entry.resetAt) =>
                                failedAttempts'[q.user] = NoEntry

\* C15: once the failure count of an actor has reached 10 inside the one-hour
\* window its first failure started, every lockout check until the end of
\* that window answers locked and every check after it answers not locked;
\* no step of any request, a successful redemption or an administrator's
\* action included, ends the lockout before the window does.
LockedUntilWindowEnds == [][LockoutHeld /\ LockoutChecked]_vars

LockedUntilWindowEndsWitness ==
    /\ req[1].pc = "done" /\ req[1].action = "redeem_task_code"
    /\ req[1].resp.msg = "Account temporarily locked"
    /\ now > 2 * RateWindow
    /\ failedAttempts["u1"].resetAt = LockoutWindow
    /\ ~task_code_windows["w1"].is_active

BruteForceFlags(u) ==
    Rows(abuse_flags, LAMBDA f : f.user_id = u /\ f.flag_type = "brute_force_codes")

\* C16: in one failure-count window the wrong-code attempts of one actor
\* create one brute_force_codes flag, on the 8th attempt, and none on the 9th
\* and later: the actor never has more than one.  (A window that ends by 2 * LockoutWindow is the first
\* window of the actor, so every flag there is belongs to it.)
FlaggedOncePerWindow ==
    \A u \in Users :
        failedAttempts[u].resetAt <= 2 * LockoutWindow =>
            Len(BruteForceFlags(u)) <= 1

\* -------------------------------------------------------------- referrals
InitReferral == InitWith(FreshProfiles, OneWindow, <<>>, <<>>, <<>>, <<>>, <<>>, 0)

\* u2 sends its referral requests without waiting for the answers
NextReferral ==
    \/ /\ issued < MaxReferralRequests
       /\ \E r \in Slots, c \in RefCodes : RequestReferral(r, "u2", c, "ip1")
    \/ \E r \in Slots :
        \/ autoProcessPending_rewards(r)
        \/ autoProcessPending_commissions(r)
        \/ processReferral_referrer(r)
        \/ processReferral_profile(r)
        \/ processReferral_history(r)
        \/ processReferral_ips(r)
        \/ processReferral_recent(r)
        \/ processReferral_insert(r)
        \/ processReferral_credit(r)
        \/ processReferral_transaction(r)
        \/ processReferral_commission(r)
        \/ trackMetric_read(r)
        \/ trackMetric_write(r)

SpecReferral == InitReferral /\ [][NextReferral]_vars

ReferralStages ==
    {"pr_history", "pr_ips", "pr_flag", "pr_recent", "pr_insert", "pr_credit", "pr_tx",
     "pr_commission"}

Refused(q, msg) ==
    /\ q.pc = "done"
    /\ q.resp.status = 400
    /\ q.resp.msg = msg
    /\ q.wrote = {}

\* a request past the two checks carries another user's code and a profile
\* it read without a referrer
ReferralChecked ==
    \A r \in Slots :
        (req[r].action = "process_referral" /\ req[r].pc \in ReferralStages) =>
            /\ req[r].referrer \in Users \ {req[r].user}
            /\ req[r].prof.referred_by = NoUser

ReferralRefused ==
    \A r \in Slots :
        (req[r].action = "process_referral" /\ req'[r] # req[r]) =>
            /\ (req[r].pc = "pr_referrer" /\ ReferrerOf(req[r].refcode) = req[r].user) =>
                   Refused(req'[r], "Cannot refer yourself") /\ tables' = tables
            /\ (req[r].pc = "pr_profile" /\ user_profiles[req[r].user].referred_by # NoUser) =>
                   Refused(req'[r], "User already has a referrer") /\ tables' = tables

ReferralsOf(u) == Rows(referral_history, LAMBDA row : row.referred_id = u)

BonusesOf(u) == Rows(transactions, LAMBDA row : row.user_id = u /\ row.type = "referral")

\* C18: whatever the interleaving of one actor's process_referral requests,
\* at most one referral-history row names the actor as referred and the
\* signup bonus is granted to the actor at most once.
ReferredAtMostOnce ==
    \A u \in Users :
        /\ Len(ReferralsOf(u)) <= 1
        /\ Len(BonusesOf(u)) <= 1

\* --------------------------------------------------- the referrer's day
\* u1 has referred `old` users over the previous days, ten a day, and `today`
\* users on the present date; they are users other than u1 and u2.
PastReferrals(old, today) ==
    [i \in 1..(old + today) |->
        [referrer_id |-> "u1", referred_id |-> "other" \o ToString(i),
         reward_amount |-> 0,
         created_at |-> IF i <= old THEN (((i - 1) \div ReferralDailyCap) - (old \div ReferralDailyCap)) * Day
                        ELSE 0]]

InitReferrer ==
    \E old \in {0, 50}, today \in {9, 10} :
        /\ now = 0
        /\ user_profiles = FreshProfiles
        /\ task_code_windows = OneWindow
        /\ redemptions = <<>>
        /\ user_tasks = <<>>
        /\ quiz_sessions = <<>>
        /\ pending_rewards = <<>>
        /\ referral_commissions = <<>>
        /\ referral_history = PastReferrals(old, today)
        /\ transactions = <<>>
        /\ reward_logs = <<>>
        /\ abuse_flags = <<>>
        /\ platform_metrics = [d \in MetricDays |-> NoMetric]
        /\ rateLimits = [k \in (Users \X Actions) \cup ({"code_ip"} \X IPs) |-> NoEntry]
        /\ failedAttempts = [u \in Users |-> NoEntry]
        /\ req = [r \in Slots |-> IdleReq]
        /\ issued = 0
        /\ faultsLeft = 0

\* one request at a time
NextReferrer ==
    \/ /\ issued < MaxRequests
       /\ Quiet
       /\ \E r \in Slots, c \in RefCodes : RequestReferral(r, "u2", c, "ip1")
    \/ Quiet /\ Advance(Day)
    \/ \E r \in Slots :
        \/ autoProcessPending_rewards(r)
        \/ autoProcessPending_commissions(r)
        \/ processReferral_referrer(r)
        \/ processReferral_profile(r)
        \/ processReferral_history(r)
        \/ processReferral_ips(r)
        \/ processReferral_recent(r)
        \/ processReferral_insert(r)
        \/ processReferral_credit(r)
        \/ processReferral_transaction(r)
        \/ processReferral_commission(r)
        \/ trackMetric_read(r)
        \/ trackMetric_write(r)

SpecReferrer == InitReferrer /\ [][NextReferrer]_vars

ReferredOn(u, d) ==
    Rows(referral_history, LAMBDA row : row.referrer_id = u /\ DateOf(row.created_at) = d)

\* C19: no referrer has more than 10 referral-history rows created on one UTC
\* date, however many rows the referrer has in total.
ReferrerDailyCap ==
    \A u \in Users, i \in 1..Len(referral_history) :
        Len(ReferredOn(u, DateOf(referral_history[i].created_at))) <= 10

\* ------------------------------------------------- the referrer's addresses
\* u1 has redeemed `n` codes of earlier windows on earlier days, the last one
\* from ip1 and those before it from ip2.
PastRedemptions(n) ==
    [i \in 1..n |->
        [user_id |-> "u1", task_id |-> "general", window_id |-> "old" \o ToString(i),
         redeemed_at |-> (i - n - 1) * Day,
         ip_hash |-> IF i = n THEN "ip1" ELSE "ip2"]]

InitAddresses ==
    \E n \in {1, 5, 6} :
        InitWith(FreshProfiles, OneWindow, <<>>, <<>>, <<>>, PastRedemptions(n), <<>>, 0)

\* one request at a time
NextAddresses ==
    \/ /\ issued < MaxRequests
       /\ Quiet
       /\ \E r \in Slots, c \in RefCodes, ip \in IPs : RequestReferral(r, "u2", c, ip)
    \/ \E r \in Slots :
        \/ autoProcessPending_rewards(r)
        \/ autoProcessPending_commissions(r)
        \/ processReferral_referrer(r)
        \/ processReferral_profile(r)
        \/ processReferral_history(r)
        \/ processReferral_ips(r)
        \/ processReferral_flag(r)
        \/ processReferral_recent(r)
        \/ processReferral_insert(r)
        \/ processReferral_credit(r)
        \/ processReferral_transaction(r)
        \/ processReferral_commission(r)
        \/ trackMetric_read(r)
        \/ trackMetric_write(r)

SpecAddresses == InitAddresses /\ [][NextAddresses]_vars

SharesAddress(u, ip) ==
    \E i \in 1..Len(redemptions) :
        redemptions[i].user_id = u /\ redemptions[i].ip_hash = ip

\* C20: a process_referral from an address that any Redemption row of the
\* referrer carries goes no further than the flag: it never reaches the daily
\* cap or the writes, and it is never answered with success, however many
\* redemptions the referrer has.
SharedAddressRefused ==
    \A r \in Slots :
        (/\ req[r].action = "process_referral"
         /\ ReferrerOf(req[r].refcode) \in Users \ {req[r].user}
         /\ SharesAddress(ReferrerOf(req[r].refcode), req[r].ip)) =>
            /\ req[r].pc \notin {"pr_recent", "pr_insert", "pr_credit", "pr_tx", "pr_commission"}
            /\ req[r].pc = "done" => /\ req[r].resp.status # 200
                                     /\ req[r].wrote \subseteq {"flag"}

\* ------------------------------------------------- ongoing commissions
\* u1 redeemed a code of an earlier window from ip1; u2 is or is not referred
\* by u1 and has or has not completed the one-time task the day before.
InitCommission ==
    \E referred \in BOOLEAN, active \in BOOLEAN :
        InitWith(IF referred THEN ReferredProfiles ELSE FreshProfiles,
                 OneWindow, <<>>, <<>>, <<>>,
                 <<[user_id |-> "u1", task_id |-> "general", window_id |-> "old1",
                    redeemed_at |-> -Day, ip_hash |-> "ip1"]>>,
                 IF active
                 THEN <<[user_id |-> "u2", task_id |-> "task_once", status |-> "completed",
                         completed_at |-> -Day]>>
                 ELSE <<>>,
                 0)

\* one request at a time: u2 earns by tasks and by the code
NextCommissions ==
    \/ /\ issued < MaxRequests
       /\ Quiet
       /\ \E r \in Slots, t \in TaskIds : RequestTask(r, "u2", t)
    \/ /\ issued < MaxRequests
       /\ Quiet
       /\ \E r \in Slots, ip \in IPs : RequestRedeem(r, "u2", "redeem_task_code", "goodcode", ip)
    \/ \E r \in Slots :
        \/ autoProcessPending_rewards(r)
        \/ autoProcessPending_commissions(r)
        \/ completeTask_task(r)
        \/ completeTask_profile(r)
        \/ completeTask_completions(r)
        \/ completeTask_insert(r)
        \/ completeTask_credit(r)
        \/ completeTask_transaction(r)
        \/ completeTask_log(r)
        \/ redeemTaskCode_find(r)
        \/ redeemTaskCode_duplicate(r)
        \/ checkAbuseThrottling_flags(r)
        \/ checkAbuseThrottling_velocity(r)
        \/ checkAbuseThrottling_cluster(r)
        \/ redeemTaskCode_profile(r)
        \/ redeemTaskCode_insert(r)
        \/ redeemTaskCode_window(r)
        \/ redeemTaskCode_credit(r)
        \/ redeemTaskCode_transaction(r)
        \/ redeemTaskCode_log(r)
        \/ trackMetric_read(r)
        \/ trackMetric_write(r)
        \/ processReferralCommission_profile(r)
        \/ processReferralCommission_tasks(r)
        \/ processReferralCommission_redemptions(r)
        \/ processReferralCommission_referrerIps(r)
        \/ processReferralCommission_ownIps(r)
        \/ processReferralCommission_flag(r)
        \/ processReferralCommission_insert(r)

SpecCommission == InitCommission /\ [][NextCommissions]_vars

Activities(u) ==
    Len(Rows(user_tasks, LAMBDA row : row.user_id = u /\ row.status = "completed"))
        + Len(Rows(redemptions, LAMBDA row : row.user_id = u))

RecentIps(u) == {redemptions[i].ip_hash : i \in Newest(RedemptionsOf(u), 5)}

\* the reward a settlement of this source has just credited
SettledReward(u, source) ==
    LET logs == Rows(reward_logs, LAMBDA row : row.user_id = u /\ row.source_id = source)
    IN  reward_logs[logs[Len(logs)]].reward_amount

\* a step that adds a commission row adds one that the rule allows
CommissionEarned ==
    referral_commissions' # referral_commissions =>
        /\ Len(referral_commissions') = Len(referral_commissions) + 1
        /\ LET row == referral_commissions'[Len(referral_commissions')]
               reward == SettledReward(row.referred_id, row.source_reward_id)
           IN  /\ row.referrer_id # NoUser
               /\ user_profiles[row.referred_id].referred_by = row.referrer_id
               /\ Activities(row.referred_id) >= 2
               /\ RecentIps(row.referrer_id) \cap RecentIps(row.referred_id) = {}
               /\ row.status = "pending"
               /\ 10 * row.commission_amount <= reward + 5
               /\ reward + 5 < 10 * row.commission_amount + 10
               /\ row.eligible_at = now + Day
               /\ row.created_at = now

\* a settlement that has been written is answered with success
SettlementSucceeds ==
    \A r \in Slots :
        (req[r].pc = "done" /\ req[r].wrote \cap {"user_task", "redemption"} # {}) =>
            req[r].resp.status = 200

FlagsOf(n) ==
    [i \in 1..(n + 1) |->
        IF i <= n
        THEN [user_id |-> "u1", flag_type |-> "brute_force_codes", severity |-> "medium",
              resolved |-> FALSE]
        ELSE [user_id |-> "u1", flag_type |-> "referral_same_ip", severity |-> "high",
              resolved |-> FALSE]]

InitFlagged ==
    \E n \in {0, 9, 10} :
        /\ now = 0
        /\ user_profiles = AdminProfiles
        /\ task_code_windows = OneWindow
        /\ redemptions = <<>>
        /\ user_tasks = <<>>
        /\ quiz_sessions = <<>>
        /\ pending_rewards = <<>>
        /\ referral_commissions = <<>>
        /\ referral_history = <<>>
        /\ transactions = <<>>
        /\ reward_logs = <<>>
        /\ abuse_flags = FlagsOf(n)
        /\ platform_metrics = [d \in MetricDays |-> NoMetric]
        /\ rateLimits = [k \in (Users \X Actions) \cup ({"code_ip"} \X IPs) |-> NoEntry]
        /\ failedAttempts = [u \in Users |-> NoEntry]
        /\ req = [r \in Slots |-> IdleReq]
        /\ issued = 0
        /\ faultsLeft = 0

\* one request at a time: u1 redeems, the administrator u2 resolves flags
NextFlagged ==
    \/ /\ issued < MaxRequests
       /\ Quiet
       /\ \E r \in Slots : RequestRedeem(r, "u1", "redeem_task_code", "goodcode", "ip1")
    \/ /\ issued < MaxRequests
       /\ Quiet
       /\ \E r \in Slots, u \in Users, f \in {0, 1, Len(abuse_flags)} : RequestResolve(r, u, f)
    \/ \E r \in Slots :
        \/ autoProcessPending_rewards(r)
        \/ autoProcessPending_commissions(r)
        \/ adminResolveFlag_verify(r)
        \/ adminResolveFlag_update(r)
        \/ redeemTaskCode_find(r)
        \/ redeemTaskCode_duplicate(r)
        \/ checkAbuseThrottling_flags(r)
        \/ checkAbuseThrottling_velocity(r)
        \/ checkAbuseThrottling_cluster(r)
        \/ redeemTaskCode_profile(r)
        \/ redeemTaskCode_insert(r)
        \/ redeemTaskCode_window(r)
        \/ redeemTaskCode_credit(r)
        \/ redeemTaskCode_transaction(r)
        \/ redeemTaskCode_log(r)
        \/ trackMetric_read(r)
        \/ trackMetric_write(r)
        \/ processReferralCommission_profile(r)

SpecFlagged == InitFlagged /\ [][NextFlagged]_vars

UnderReview(u) ==
    \E i \in 1..Len(abuse_flags) :
        /\ abuse_flags[i].user_id = u
        /\ ~abuse_flags[i].resolved
        /\ abuse_flags[i].severity \in {"high", "critical"}

\* C22: while an actor has an unresolved flag of severity high or critical, no
\* redeem of the actor passes the scorer: none reaches the stages after it,
\* none writes a Redemption row, the window counter or a credit, and none is
\* answered with success, however many other unresolved flags there are.
FlaggedNeverRedeems ==
    \A r \in Slots :
        (req[r].action = "redeem_task_code" /\ UnderReview(req[r].user)) =>
            /\ req[r].pc \notin RedeemStages \ {"rd_duplicate", "ab_flags"}
            /\ req[r].wrote = {}
            /\ req[r].pc = "done" => req[r].resp.status # 200

\* ----------------------------------------------------------- the scorer
\* a store at time t with nothing pending and every in-memory counter elapsed
InitStore(t, profiles, redeemed, flags, pending, commissions) ==
    /\ now = t
    /\ user_profiles = profiles
    /\ task_code_windows = OneWindow
    /\ redemptions = redeemed
    /\ user_tasks = <<>>
    /\ quiz_sessions = <<>>
    /\ pending_rewards = pending
    /\ referral_commissions = commissions
    /\ referral_history = <<>>
    /\ transactions = <<>>
    /\ reward_logs = <<>>
    /\ abuse_flags = flags
    /\ platform_metrics = [d \in MetricDays |-> NoMetric]
    /\ rateLimits = [k \in (Users \X Actions) \cup ({"code_ip"} \X IPs) |-> NoEntry]
    /\ failedAttempts = [u \in Users |-> NoEntry]
    /\ req = [r \in Slots |-> IdleReq]
    /\ issued = 0
    /\ faultsLeft = 0

\* `fast` redemptions of u1 in the last minutes from ip2, and redemptions of
\* `crowd` other users from ip1 in the last hours, all of earlier windows
ScoredRedemptions(fast, crowd) ==
    [i \in 1..(crowd + fast) |->
        IF i <= crowd
        THEN [user_id |-> "other" \o ToString(i), task_id |-> "general",
              window_id |-> "old0", redeemed_at |-> 5 - 60 * i, ip_hash |-> "ip1"]
        ELSE [user_id |-> "u1", task_id |-> "general",
              window_id |-> "old" \o ToString(i - crowd), redeemed_at |-> 5 + (i - crowd),
              ip_hash |-> "ip2"]]

\* `low` unresolved low-severity flags of u1, and after them a high one or not
ScoredFlags(low, high) ==
    [i \in 1..(low + IF high THEN 1 ELSE 0) |->
        IF i <= low
        THEN [user_id |-> "u1", flag_type |-> "referral_ip_match", severity |-> "low",
              resolved |-> FALSE]
        ELSE [user_id |-> "u1", flag_type |-> "referral_same_ip", severity |-> "high",
              resolved |-> FALSE]]

InitScorer ==
    \E fast \in {0, 5}, crowd \in {0, 4}, low \in {0, 2, 3}, high \in BOOLEAN :
        InitStore(12, FreshProfiles, ScoredRedemptions(fast, crowd), ScoredFlags(low, high),
                  <<>>, <<>>)

\* one request at a time
NextScorer ==
    \/ /\ issued < MaxRequests
       /\ Quiet
       /\ \E r \in Slots, ip \in IPs : RequestRedeem(r, "u1", "redeem_task_code", "goodcode", ip)
    \/ \E r \in Slots :
        \/ autoProcessPending_rewards(r)
        \/ autoProcessPending_commissions(r)
        \/ redeemTaskCode_find(r)
        \/ redeemTaskCode_duplicate(r)
        \/ checkAbuseThrottling_flags(r)
        \/ checkAbuseThrottling_velocity(r)
        \/ checkAbuseThrottling_cluster(r)
        \/ checkAbuseThrottling_flag(r)
        \/ redeemTaskCode_profile(r)
        \/ redeemTaskCode_insert(r)
        \/ redeemTaskCode_window(r)
        \/ redeemTaskCode_credit(r)
        \/ redeemTaskCode_transaction(r)
        \/ redeemTaskCode_log(r)
        \/ trackMetric_read(r)
        \/ trackMetric_write(r)
        \/ processReferralCommission_profile(r)

SpecScorer == InitScorer /\ [][NextScorer]_vars

\* the request is about to be scored
Scoring(r) == req[r].pc = "ab_flags"

Score(r) == checkAbuseThrottling(req[r].user, req[r].ip, now)

\* the penalties that apply, as a fraction of 32
Penalties(r) ==
    LET fast == Cardinality({i \in RedemptionsOf(req[r].user) :
                                redemptions[i].redeemed_at > now - 10}) >= 5
        crowd == Cardinality({redemptions[i].user_id :
                                 i \in {j \in RedemptionsFrom(req[r].ip) :
                                           redemptions[j].redeemed_at > now - Day}}) > 3
        flagged == Len(Rows(abuse_flags,
                            LAMBDA f : f.user_id = req[r].user /\ ~f.resolved)) \in {1, 2}
    IN  (IF fast THEN 1 ELSE 2) * (IF crowd THEN 1 ELSE 4) * (IF flagged THEN 3 ELSE 4)

CheckedIn(streak) ==
    [FreshProfiles EXCEPT !["u1"] =
        [@ EXCEPT !.last_login = IF streak = 0 THEN -1 ELSE 0, !.daily_streak = streak]]

\* day 1 begins
InitCheckin ==
    \E streak \in {0, 1, 4, 8, 9, 12} :
        InitStore(Day, CheckedIn(streak), <<>>, <<>>, <<>>, <<>>)

\* one request at a time, days pass between requests
NextCheckin ==
    \/ /\ issued < MaxRequests
       /\ Quiet
       /\ \E r \in Slots : RequestCheckin(r, "u1")
    \/ Quiet /\ Advance(Day)
    \/ \E r \in Slots :
        \/ autoProcessPending_rewards(r)
        \/ autoProcessPending_commissions(r)
        \/ dailyCheckin_profile(r)
        \/ dailyCheckin_credit(r)
        \/ dailyCheckin_transaction(r)
        \/ dailyCheckin_metrics(r)
        \/ dailyCheckin_active(r)
        \/ trackMetric_read(r)
        \/ trackMetric_write(r)

SpecCheckin == InitCheckin /\ [][NextCheckin]_vars

\* round(10 * min(1 + (n - 1) * 0.5, 5)) for a streak of n days
StreakReward(n) == IF n >= 9 THEN 50 ELSE 10 + 5 * (n - 1)

CheckinStep(r) == req[r].pc = "dc_credit" /\ req'[r].pc = "dc_tx"

\* C24: a check-in the day after the last one makes the streak one longer, any
\* other makes it 1; the reward credited is round(10 * min(1 + (streak - 1) *
\* 0.5, 5)), which is 30 for a streak of 5, and the day is recorded.
StreakAndReward ==
    [][\A r \in Slots :
          CheckinStep(r) =>
              LET u == req[r].user
                  old == user_profiles[u]
                  new == user_profiles'[u]
                  n == new.daily_streak
              IN  /\ new.last_login = DateOf(now)
                  /\ n = IF old.last_login # -1 /\ old.last_login = DateOf(now) - 1
                         THEN old.daily_streak + 1
                         ELSE 1
                  /\ new.balance - old.balance = StreakReward(n)
                  /\ new.total_earned - old.total_earned = StreakReward(n)
                  /\ req[r].reward = StreakReward(n)
                  /\ (n = 5 => new.balance - old.balance = 30)]_vars

\* a fifth day in a row has paid 30, and a day after a gap has paid 10
StreakAndRewardWitness ==
    \E r \in Slots :
        /\ req[r].pc = "done" /\ req[r].action = "daily_checkin"
        /\ req[r].resp.status = 200 /\ req[r].resp.reward = 30
        /\ user_profiles[req[r].user].daily_streak = 5

\* --------------------------------------------------- concurrent metric calls
\* the day's metrics row is there with nothing counted yet, or is not there
InitMetrics ==
    \E there \in BOOLEAN :
        /\ now = Day
        /\ user_profiles = FreshProfiles
        /\ task_code_windows = OneWindow
        /\ redemptions = <<>>
        /\ user_tasks = <<>>
        /\ quiz_sessions = <<>>
        /\ pending_rewards = <<>>
        /\ referral_commissions = <<>>
        /\ referral_history = <<>>
        /\ transactions = <<>>
        /\ reward_logs = <<>>
        /\ abuse_flags = <<>>
        /\ platform_metrics = [d \in MetricDays |->
                                  IF there /\ d = DateOf(Day)
                                  THEN [NoMetric EXCEPT !.exists = TRUE]
                                  ELSE NoMetric]
        /\ rateLimits = [k \in (Users \X Actions) \cup ({"code_ip"} \X IPs) |-> NoEntry]
        /\ failedAttempts = [u \in Users |-> NoEntry]
        /\ req = [r \in Slots |-> IdleReq]
        /\ issued = 0
        /\ faultsLeft = 0

\* check-ins of the two users on one day, in any interleaving
NextMetrics ==
    \/ /\ issued < MaxRequests
       /\ \E r \in Slots, u \in Users : RequestCheckin(r, u)
    \/ \E r \in Slots :
        \/ autoProcessPending_rewards(r)
        \/ autoProcessPending_commissions(r)
        \/ dailyCheckin_profile(r)
        \/ dailyCheckin_credit(r)
        \/ dailyCheckin_transaction(r)
        \/ dailyCheckin_metrics(r)
        \/ dailyCheckin_active(r)
        \/ trackMetric_read(r)
        \/ trackMetric_write(r)

SpecMetrics == InitMetrics /\ [][NextMetrics]_vars

\* the amounts tracked so far: every check-in tracks what its transaction says
TrackedAmounts ==
    SumSeq([i \in 1..Len(transactions) |-> transactions[i].amount])

\* C25: once the concurrent tracking calls of a day have returned, the day has
\* one metrics row and its total is the sum of the amounts tracked.
MetricTotalIsSum ==
    Quiet =>
        LET row == platform_metrics[DateOf(now)]
        IN  TrackedAmounts > 0 =>
                row.exists /\ row.total_rewards_issued = TrackedAmounts

\* ------------------------------------------- limits, sweep, action: the order
\* u1 has a matured pending reward and a matured commission; when `busy`, u1
\* has used the minute's allowance but one for get_pending_rewards, address ip1
\* has made its 5 code attempts of the minute, and u1 is locked out
InitOrder ==
    \E busy \in BOOLEAN :
        /\ now = CommissionDelay
        /\ user_profiles = ReferredProfiles
        /\ task_code_windows = OneWindow
        /\ redemptions = <<>>
        /\ user_tasks = <<>>
        /\ quiz_sessions = <<>>
        /\ pending_rewards = <<[user_id |-> "u1", reward_amount |-> 40, status |-> "pending",
                                process_at |-> CommissionDelay]>>
        /\ referral_commissions =
               <<[referrer_id |-> "u1", referred_id |-> "u2",
                  source_reward_id |-> "signup_referral", commission_amount |-> 100,
                  status |-> "pending", eligible_at |-> CommissionDelay, created_at |-> 0]>>
        /\ referral_history = <<>>
        /\ transactions = <<>>
        /\ reward_logs = <<>>
        /\ abuse_flags = <<>>
        /\ platform_metrics = [d \in MetricDays |-> NoMetric]
        /\ rateLimits =
               [k \in (Users \X Actions) \cup ({"code_ip"} \X IPs) |->
                   IF ~busy THEN NoEntry
                   ELSE IF k = <<"code_ip", "ip1">>
                        THEN [count |-> CodeIpRate, resetAt |-> CommissionDelay]
                   ELSE IF k = <<"u1", "get_pending_rewards">>
                        THEN [count |-> DefaultRate - 1, resetAt |-> CommissionDelay]
                   ELSE NoEntry]
        /\ failedAttempts =
               [u \in Users |->
                   IF busy /\ u = "u1"
                   THEN [count |-> LockoutCount, resetAt |-> CommissionDelay + LockoutWindow - 1]
                   ELSE NoEntry]
        /\ req = [r \in Slots |-> IdleReq]
        /\ issued = 0
        /\ faultsLeft = 0

\* requests of u1 in any interleaving; the code's window has closed
NextOrder ==
    \/ /\ issued < MaxRequests
       /\ \E r \in Slots : RequestPending(r, "u1")
    \/ /\ issued < MaxRequests
       /\ \E r \in Slots, ip \in IPs : RequestRedeem(r, "u1", "redeem_task_code", "goodcode", ip)
    \/ \E r \in Slots :
        \/ autoProcessPending_rewards(r)
        \/ processReward_read(r)
        \/ processReward_credit(r)
        \/ processReward_mark(r)
        \/ processReward_transaction(r)
        \/ processReward_log(r)
        \/ autoProcessPending_commissions(r)
        \/ processCommission_read(r)
        \/ processCommission_credit(r)
        \/ processCommission_mark(r)
        \/ processCommission_transaction(r)
        \/ getPendingRewards(r)
        \/ redeemTaskCode_find(r)
        \/ trackMetric_read(r)
        \/ trackMetric_write(r)

SpecOrder == InitOrder /\ [][NextOrder]_vars

\* the request is inside autoProcessPending
Sweeping(q) ==
    \/ q.pc \in {"sweep_pending", "sweep_commissions", "rw_read", "rw_credit", "rw_mark",
                 "rw_tx", "rw_log", "cm_read", "cm_credit", "cm_mark", "cm_tx"}
    \/ q.pc \in {"tm_read", "tm_write"} /\ q.ret = "sweep"

Rejected(q) == q.pc = "done" /\ q.resp.status = 429

\* C26: a request meets the limits first, then the sweep, then its action's
\* handler; a request answered 429 has run no sweep and changed no row.
LimitsThenSweepThenAction ==
    [][\A r \in Slots :
          LET q == req[r]
              after == req'[r]
          IN  /\ (~InFlight(r) /\ after # q) =>
                     \/ after.pc = "sweep_pending"
                     \/ Rejected(after) /\ UNCHANGED tables
              /\ (Rejected(after) /\ after # q) => ~InFlight(r)
              /\ (Sweeping(q) /\ ~Sweeping(after)) => after.pc = EntryPc(q.action)
              /\ (InFlight(r) /\ ~Sweeping(q)) => ~Sweeping(after)]_vars

\* a request was answered 429 while a matured row of its user is still pending
LimitsThenSweepThenActionWitness ==
    \E r \in Slots :
        /\ Rejected(req[r])
        /\ \E i \in 1..Len(referral_commissions) :
               /\ referral_commissions[i].referrer_id = req[r].user
               /\ referral_commissions[i].status = "pending"
               /\ referral_commissions[i].eligible_at <= now

\* ------------------------------------------------- failures inside the sweep
\* u1 checked in yesterday for the fourth day in a row, and holds a matured
\* pending reward and a matured commission, or nothing to sweep; the store
\* may fail MaxFaults operations
InitContained ==
    \E swept \in BOOLEAN :
        /\ now = Day
        /\ user_profiles = CheckedIn(4)
        /\ task_code_windows = OneWindow
        /\ redemptions = <<>>
        /\ user_tasks = <<>>
        /\ quiz_sessions = <<>>
        /\ pending_rewards =
               IF swept
               THEN <<[user_id |-> "u1", reward_amount |-> 40, status |-> "pending",
                       process_at |-> Day]>>
               ELSE <<>>
        /\ referral_commissions =
               IF swept
               THEN <<[referrer_id |-> "u1", referred_id |-> "u2",
                       source_reward_id |-> "signup_referral", commission_amount |-> 100,
                       status |-> "pending", eligible_at |-> Day, created_at |-> 0]>>
               ELSE <<>>
        /\ referral_history = <<>>
        /\ transactions = <<>>
        /\ reward_logs = <<>>
        /\ abuse_flags = <<>>
        /\ platform_metrics = [d \in MetricDays |-> NoMetric]
        /\ rateLimits = [k \in (Users \X Actions) \cup ({"code_ip"} \X IPs) |-> NoEntry]
        /\ failedAttempts = [u \in Users |-> NoEntry]
        /\ req = [r \in Slots |-> IdleReq]
        /\ issued = 0
        /\ faultsLeft = MaxFaults

\* one request at a time
NextContained ==
    \/ /\ issued < MaxRequests
       /\ Quiet
       /\ \E r \in Slots : RequestCheckin(r, "u1")
    \/ /\ issued < MaxRequests
       /\ Quiet
       /\ \E r \in Slots : RequestPending(r, "u1")
    \/ \E r \in Slots :
        \/ autoProcessPending_rewards(r)
        \/ processReward_read(r)
        \/ processReward_credit(r)
        \/ processReward_mark(r)
        \/ processReward_transaction(r)
        \/ processReward_log(r)
        \/ autoProcessPending_commissions(r)
        \/ processCommission_read(r)
        \/ processCommission_credit(r)
        \/ processCommission_mark(r)
        \/ processCommission_transaction(r)
        \/ getPendingRewards(r)
        \/ dailyCheckin_profile(r)
        \/ dailyCheckin_credit(r)
        \/ dailyCheckin_transaction(r)
        \/ dailyCheckin_metrics(r)
        \/ dailyCheckin_active(r)
        \/ trackMetric_read(r)
        \/ trackMetric_write(r)

SpecContained == InitContained /\ [][NextContained]_vars

\* the store operations of the sweep, as a request records them
SweepOperations ==
    {"sweep_read", "sweep_profile", "sweep_status", "sweep_transaction", "sweep_log",
     "metric", "metric_read"}

\* the request as its action's handler receives it
HandlerEntered(q, after) ==
    /\ after.pc = EntryPc(q.action)
    /\ after.user = q.user /\ after.action = q.action
    /\ after.resp = NoResponse

\* what the action answers when the operations of the action itself succeed
Outcome(q, profiles) ==
    \/ q.action = "get_pending_rewards" /\ q.resp.status = 200
    \/ /\ q.action = "daily_checkin"
       /\ profiles[q.user].last_login = DateOf(now)
       /\ \/ q.resp.status = 200 /\ q.resp.reward = 30
          \/ q.resp.status = 400 /\ q.resp.msg = "Already checked in today"

SweepStep(r) == Sweeping(req[r]) /\ req'[r] # req[r]

InitAdmin ==
    InitStore(0, AdminProfiles, <<>>, FlagsOf(1), <<>>, <<>>)

\* every administrative action, by the user and by the administrator, with
\* every body, in any interleaving
NextAdmin ==
    \/ /\ issued < MaxRequests
       /\ \E r \in Slots, u \in Users, flagId \in 0..2 : RequestResolve(r, u, flagId)
    \/ /\ issued < MaxRequests
       /\ \E r \in Slots, u \in Users, taskId \in TaskIds \cup {"none", "nosuch"} :
              RequestGenerate(r, u, taskId)
    \/ /\ issued < MaxRequests
       /\ \E r \in Slots, u \in Users, windowId \in WindowIds \cup {"none"} :
              RequestDisable(r, u, windowId)
    \/ /\ issued < MaxRequests
       /\ \E r \in Slots, u \in Users,
             action \in {"admin_list_code_windows", "admin_get_metrics",
                         "admin_get_abuse_flags"} :
              RequestAdminRead(r, u, action)
    \/ \E r \in Slots :
        \/ autoProcessPending_rewards(r)
        \/ autoProcessPending_commissions(r)
        \/ adminResolveFlag_verify(r)
        \/ adminResolveFlag_update(r)
        \/ adminGenerateCodeWindow_verify(r)
        \/ adminGenerateCodeWindow_windows(r)
        \/ adminGenerateCodeWindow_insert(r)
        \/ adminDisableCodeWindow_verify(r)
        \/ adminDisableCodeWindow_update(r)
        \/ adminRead_verify(r)
        \/ adminRead_list(r)

SpecAdmin == InitAdmin /\ [][NextAdmin]_vars

AdminActions ==
    {"admin_generate_code_window", "admin_list_code_windows", "admin_disable_code_window",
     "admin_get_metrics", "admin_get_abuse_flags", "admin_resolve_flag"}

ByAdmin(q) == user_profiles[q.user].role = "admin"

\* C28: a step of an administrative request of a caller who is no
\* administrator changes no table, and the request is answered 403 (or 429 by
\* the limiter); a flag's resolved field changes only in a step of an
\* admin_resolve_flag request of an administrator.
AdminOnly ==
    [][/\ \A r \in Slots :
            LET q == req[r]
                after == req'[r]
            IN  (after # q /\ after.action \in AdminActions /\ ~ByAdmin(after)) =>
                    /\ UNCHANGED tables
                    /\ after.pc = "done" => after.resp.status \in {403, 429}
       /\ (\E i \in 1..Len(abuse_flags) : abuse_flags'[i].resolved # abuse_flags[i].resolved) =>
              \E r \in Slots :
                  /\ req'[r] # req[r]
                  /\ req[r].action = "admin_resolve_flag"
                  /\ ByAdmin(req[r])]_vars

\* the user has been refused the resolution of a flag and the flag is
\* unresolved, and the administrator has resolved the other
AdminOnlyWitness ==
    \E r, s \in Slots :
        /\ req[r].pc = "done" /\ req[r].action = "admin_resolve_flag"
        /\ ~ByAdmin(req[r]) /\ req[r].fid = 1 /\ req[r].resp.status = 403
        /\ ~abuse_flags[1].resolved
        /\ req[s].pc = "done" /\ req[s].action = "admin_resolve_flag"
        /\ ByAdmin(req[s]) /\ req[s].resp.status = 200
        /\ abuse_flags[2].resolved

\* ------------------------------------------ the code gate and the two names
CodeActions == {"redeem_task_code", "verify_reward_code"}

\* the address has made its code attempts of the minute
AddressSpent(ip) ==
    /\ now <= rateLimits[<<"code_ip", ip>>].resetAt
    /\ rateLimits[<<"code_ip", ip>>].count >= CodeIpRate

\* C29: a request that reaches the code-redemption handler, under the name
\* redeem_task_code or under the legacy name verify_reward_code, has been
\* counted against its address's 5 attempts a minute and is refused while the
\* address has spent them or the actor is locked out.
CodeGateUnderBothNames ==
    [][issued' = issued + 1 =>
          \A r \in Slots :
              (req'[r] # req[r] /\ req'[r].action \in CodeActions) =>
                  LET q == req'[r]
                      key == <<"code_ip", q.ip>>
                  IN  /\ (AddressSpent(q.ip) \/ Locked(q.user)) => RateLimited(q)
                      /\ ~RateLimited(q) => rateLimits'[key] # rateLimits[key]]_vars

\* ------------------------------------------------------ a backlog to sweep
\* n commissions of u1, earned by u2 on day 0 and matured a day later
Backlog(n) ==
    [i \in 1..n |->
        [referrer_id |-> "u1", referred_id |-> "u2",
         source_reward_id |-> "earned" \o ToString(i), commission_amount |-> 10,
         status |-> "pending", eligible_at |-> CommissionDelay + i, created_at |-> i]]

InitBacklog ==
    \E n \in {1, SweepLimit, SweepLimit + 1} :
        InitStore(CommissionDelay + SweepLimit + 1, ReferredProfiles, <<>>, <<>>, <<>>,
                  Backlog(n))

\* one request at a time
NextBacklog ==
    \/ /\ issued < MaxRequests
       /\ Quiet
       /\ \E r \in Slots : RequestPending(r, "u1")
    \/ \E r \in Slots :
        \/ autoProcessPending_rewards(r)
        \/ autoProcessPending_commissions(r)
        \/ processCommission_read(r)
        \/ processCommission_credit(r)
        \/ processCommission_mark(r)
        \/ processCommission_transaction(r)
        \/ getPendingRewards(r)
        \/ trackMetric_read(r)
        \/ trackMetric_write(r)

SpecBacklog == InitBacklog /\ [][NextBacklog]_vars

\* the commissions of u that had matured when the request's sweep began
MaturedFor(u, t) ==
    {i \in 1..Len(referral_commissions) :
        /\ referral_commissions[i].referrer_id = u
        /\ referral_commissions[i].eligible_at <= t}

CommissionPayments(u) ==
    {i \in 1..Len(transactions) :
        transactions[i].user_id = u /\ transactions[i].type = "referral_commission"}

\* C30: when the sweep of a request ends, every commission of the actor that
\* was pending and matured when the request passed the limiter is marked
\* processed and has been paid, however many pending rows the actor has.
MaturedRowsSwept ==
    [][\A r \in Slots :
          (Sweeping(req[r]) /\ ~Sweeping(req'[r])) =>
              LET due == MaturedFor(req[r].user, req[r].sweepNow)
              IN  /\ \A i \in due : referral_commissions'[i].status = "processed"
                  /\ Cardinality(CommissionPayments(req[r].user)) >= Cardinality(due)]_vars

\* ------------------------------------------------- one credit per session
\* u1 holds a session with every question answered, four or five correctly;
\* finish_quiz requests for it arrive in any interleaving
InitFinishRace ==
    \E score \in {4, 5} :
        InitWith(FreshProfiles, OneWindow, <<PlayedSession(EasyPool, 5, score)>>,
                 <<>>, <<>>, <<>>, <<>>, 0)

NextFinishRace ==
    \/ /\ issued < MaxRequests
       /\ \E r \in Slots : RequestFinish(r, "u1", 1)
    \/ \E r \in Slots :
        \/ autoProcessPending_rewards(r)
        \/ autoProcessPending_commissions(r)
        \/ finishQuiz_session(r)
        \/ finishQuiz_complete(r)
        \/ finishQuiz_profile(r)
        \/ finishQuiz_credit(r)
        \/ finishQuiz_transaction(r)
        \/ finishQuiz_log(r)
        \/ trackMetric_read(r)
        \/ trackMetric_write(r)
        \/ processReferralCommission_profile(r)

SpecFinishRace == InitFinishRace /\ [][NextFinishRace]_vars
CompletedSessions(u) ==
    {i \in 1..Len(quiz_sessions) :
        quiz_sessions[i].user_id = u /\ quiz_sessions[i].status = "completed"}

QuizPayments(u) ==
    {i \in 1..Len(transactions) :
        transactions[i].user_id = u /\ transactions[i].type = "quiz"}

SessionRewards(u) ==
    SumSeq([k \in 1..Len(quiz_sessions) |->
               IF k \in CompletedSessions(u) THEN quiz_sessions[k].total_earned ELSE 0])

\* C31: a session is paid at most once: whatever the interleaving of the
\* finish_quiz requests for it, the actor has no more quiz payments than
\* completed sessions and the balance has grown by no more than their rewards.
SessionCreditedOnce ==
    \A u \in Users :
        /\ Cardinality(QuizPayments(u)) <= Cardinality(CompletedSessions(u))
        /\ user_profiles[u].balance <= InitBalance + SessionRewards(u)

\* ----------------------------------------------- one completion per task
CompletionsOf(u, t) ==
    {i \in 1..Len(user_tasks) : user_tasks[i].user_id = u /\ user_tasks[i].task_id = t}

TaskRewardsOf(u, t) ==
    {i \in 1..Len(reward_logs) :
        /\ reward_logs[i].user_id = u
        /\ reward_logs[i].reward_type = "task"
        /\ reward_logs[i].source_id = t}

\* C32: whatever the interleaving of an actor's complete_task requests for a
\* one_time task, the task has at most one completion row of the actor and
\* is rewarded at most once.
OneTimeTaskOnce ==
    \A u \in Users, t \in TaskIds :
        tasks[t].task_type = "one_time" =>
            /\ Cardinality(CompletionsOf(u, t)) <= 1
            /\ Cardinality(TaskRewardsOf(u, t)) <= 1

\* ------------------------------------------------------- stale sessions
Stale(sid) ==
    /\ sid \in 1..Len(quiz_sessions)
    /\ now - quiz_sessions[sid].started_at > StaleMinutes

\* C33: a quiz_answer or finish_quiz request on a session started more than
\* 30 minutes ago changes neither the session's answers, score and earnings
\* nor any profile, and is answered as an invalid session; start_quiz marks
\* such a session expired before it inserts a new one.
StaleSessionExpired ==
    [][\A r \in Slots :
          LET q == req[r]
              after == req'[r]
          IN  /\ (InFlight(r) /\ after # q /\ q.action \in {"quiz_answer", "finish_quiz"}
                     /\ Stale(q.sid)) =>
                     /\ UNCHANGED user_profiles
                     /\ quiz_sessions'[q.sid].answered_ids = quiz_sessions[q.sid].answered_ids
                     /\ quiz_sessions'[q.sid].score = quiz_sessions[q.sid].score
                     /\ quiz_sessions'[q.sid].status # "completed"
                     /\ after.pc = "done" => after.resp.status = 400
              /\ (q.action = "start_quiz" /\ Len(quiz_sessions') > Len(quiz_sessions)) =>
                     \A sid \in 1..Len(quiz_sessions) :
                         (quiz_sessions[sid].user_id = q.user /\ Stale(sid)) =>
                             quiz_sessions[sid].status # "active"]_vars

\* ------------------------------------------------- the life of a session
\* C34: a session is created active, a completed or expired session never
\* changes again (status, score, answered set, earnings), and a session's
\* questions never change.
SessionLifeCycle ==
    [][/\ Len(quiz_sessions') >= Len(quiz_sessions)
       /\ \A sid \in 1..Len(quiz_sessions') :
              IF sid > Len(quiz_sessions)
              THEN quiz_sessions'[sid].status = "active"
              ELSE /\ quiz_sessions'[sid].question_ids = quiz_sessions[sid].question_ids
                   /\ quiz_sessions[sid].status \in {"completed", "expired"} =>
                          quiz_sessions'[sid] = quiz_sessions[sid]
                   /\ quiz_sessions'[sid].status \in
                          {quiz_sessions[sid].status, "completed", "expired"}]_vars

\* --------------------------------------------------- what an answer writes
AnswerStages == {"qa_session", "qa_question", "qa_update"}

\* a session's score counts questions of its answered set
ScoreWithinAnswers ==
    \A sid \in 1..Len(quiz_sessions) :
        quiz_sessions[sid].score <= Cardinality(quiz_sessions[sid].answered_ids)

\* a step of quizAnswer writes nothing but the answered set, the score and
\* the earnings of its session, and a question adds at most 1 to the score
AnswerWritesSession ==
    \A r \in Slots :
        (req[r].action = "quiz_answer" /\ req[r].pc \in AnswerStages /\ req'[r] # req[r]) =>
            LET sid == req[r].sid
            IN  /\ UNCHANGED <<user_profiles, transactions, reward_logs, task_code_windows,
                               redemptions, user_tasks, pending_rewards, referral_commissions,
                               referral_history, abuse_flags, platform_metrics>>
                /\ Len(quiz_sessions') = Len(quiz_sessions)
                /\ \A k \in 1..Len(quiz_sessions) :
                       IF k # sid THEN quiz_sessions'[k] = quiz_sessions[k]
                       ELSE /\ quiz_sessions'[k] =
                                   [quiz_sessions[k] EXCEPT
                                       !.answered_ids = quiz_sessions'[k].answered_ids,
                                       !.score = quiz_sessions'[k].score,
                                       !.total_earned = quiz_sessions'[k].total_earned]
                            /\ quiz_sessions'[k].score <= quiz_sessions[k].score + 1

\* C35: quiz_answer, right or wrong, accepted or refused, leaves every profile
\* and the Transaction and RewardLog tables as they are; it writes only its
\* session's answered set, score and earnings, and a question counts in the
\* score at most once.
AnswerSettlesNothing == []ScoreWithinAnswers /\ [][AnswerWritesSession]_vars

\* a right answer has been recorded in the session and nothing was paid
AnswerSettlesNothingWitness ==
    \E r \in Slots :
        /\ req[r].pc = "done" /\ req[r].action = "quiz_answer" /\ req[r].resp.status = 200
        /\ req[r].resp.reward > 0
        /\ req[r].qid \in quiz_sessions[req[r].sid].answered_ids
        /\ user_profiles[req[r].user].balance = InitBalance
        /\ transactions = <<>>

\* ------------------------------------------------ games on a small balance
\* Concurrent game_result requests of u1, whose balance at the start is less
\* than, equal to or more than the bets placed.
Stakes == {10, 20}
Purses == {0, 10, 15, 30}

InitGames ==
    \E purse \in Purses :
        InitWith([FreshProfiles EXCEPT !["u1"].balance = purse],
                 OneWindow, <<>>, <<>>, <<>>, <<>>, <<>>, 0)

NextGames ==
    \/ /\ issued < MaxRequests
       /\ \E r \in Slots, gameType \in {"coinflip", "roulette"}, betAmount \in Stakes :
              RequestGame(r, "u1", gameType, betAmount)
    \/ \E r \in Slots :
        \/ autoProcessPending_rewards(r)
        \/ autoProcessPending_commissions(r)
        \/ gameResult_profile(r)
        \/ gameResult_credit(r)
        \/ gameResult_transaction(r)
        \/ trackMetric_read(r)
        \/ trackMetric_write(r)

SpecGames == InitGames /\ [][NextGames]_vars

\* C36: no profile's stored balance is ever negative, in any sequence and any
\* interleaving of requests, concurrent game_result requests whose bets
\* together exceed the balance included.
BalanceNeverNegative == \A u \in Users : user_profiles[u].balance >= 0

\* two games were accepted on a balance smaller than their bets together,
\* both were lost and both have written the balance
BalanceNeverNegativeWitness ==
    /\ \A r \in Slots :
           /\ req[r].action = "game_result" /\ req[r].pc = "gr_tx"
           /\ req[r].reward < 0 /\ "profile" \in req[r].wrote
    /\ \E r \in Slots : req[r].prof.balance < SumSeq([s \in Slots |-> req[s].bet])

\* ------------------------------------------------------ the ledger's total
RECURSIVE AmountsOf(_, _)
AmountsOf(u, t) ==
    IF t = <<>> THEN 0
    ELSE (IF Head(t).user_id = u THEN Head(t).amount ELSE 0) + AmountsOf(u, Tail(t))

\* C37: whenever no request is in flight, every actor's balance is the
\* balance at the start plus the amounts of the Transaction rows appended for
\* that actor.
BalanceIsLedgerTotal ==
    Quiet => \A u \in Users :
                 user_profiles[u].balance = InitBalance + AmountsOf(u, transactions)

\* C38: whenever no request is in flight, a window's currentRedemptions is the
\* number of Redemption rows that reference the window, also after concurrent
\* redemptions by different actors.
CounterIsRowCount ==
    Quiet => \A w \in WindowIds :
                 task_code_windows[w].current_redemptions = Len(WindowRows(w))

\* ------------------------------------------------- check-ins on one date
CheckinRows(u) == Rows(transactions, LAMBDA row : row.user_id = u /\ row.type = "daily")

\* the profile of an actor who never checked in shows no check-in or one
CheckinCreditedOnce(u) ==
    \/ /\ user_profiles[u].balance = InitBalance
       /\ user_profiles[u].daily_streak = 0
    \/ /\ user_profiles[u].balance = InitBalance + checkinReward(1)
       /\ user_profiles[u].daily_streak = 1
       /\ user_profiles[u].last_login = DateOf(now)

\* C39: an actor receives the check-in reward at most once per date: in any
\* interleaving of the daily_checkin requests of one date the balance grows
\* by the reward once and the streak advances once, and the check-ins after
\* the first change nothing, so one "daily" Transaction is written.
CheckinOncePerDate ==
    \A u \in Users : CheckinCreditedOnce(u) /\ Len(CheckinRows(u)) <= 1

\* the part of C39 about the profile alone
CheckinProfileOnce == \A u \in Users : CheckinCreditedOnce(u)

\* ------------------------------------------------- more flags, more reward
\* C40: for the velocity and the address cluster the scorer has found, an actor
\* with more unresolved flags, none of them high or critical, never gets a
\* higher multiplier than the scorer gives for fewer flags.
MoreFlagsNeverMore ==
    \A r \in Slots :
        req[r].pc = "rd_profile" =>
            \A fewer \in 0..req[r].flagsN :
                req[r].amult <= abuseMultiplier(req[r].vel, req[r].cluster, fewer)

====
